---- MODULE Spec2Model ----
(***************************************************************************)
(* Model of the windowed backfill pipeline of src/EC2: main runs           *)
(* run_fetcher (persist the window file), run_processor (consume the       *)
(* window match by match, checkpoint on deadline or exception, delete the  *)
(* window file) and run_leftovers (consume the leftover files).            *)
(*                                                                         *)
(* A match id is a natural number; the payload of a match is represented   *)
(* by its id.  Object storage is a function from the keys that exist to    *)
(* the JSON document stored under each key.  A run starts where            *)
(* run_fetcher has collected the rank map and the match ids of the window  *)
(* and is about to persist them; the configuration is an input of the run. *)
(* The wall clock never runs backwards.                                    *)
(***************************************************************************)
EXTENDS Integers, Sequences, FiniteSets, TLC

(* ------------------------------ bounds -------------------------------- *)

\* largest number of match ids in the window collected by run_fetcher
MaxMatches == 3
\* largest number of match ids in a leftover file left by an earlier run
MaxPrior == 1
\* the wall clock takes the values 0..MaxTime
MaxTime == 1

(* ------------------------- program constants -------------------------- *)

\* one pass too many in the retry loop
MAX_RETRIES_OneMore == 3 + 1

\* fetcher.py:166, MAX_RETRIES = 3
MAX_RETRIES == 3
\* processor.py:162, "if len(match_data) >= 200"
MATCH_BATCH == 200
\* processor.py:147, "if len(timeline_data) >= 50"
TIMELINE_BATCH == 50

None == "None"

(* ------------------------------ helpers ------------------------------- *)

\* Python's seq[n:] on a list, n >= 0
SliceFrom(s, n) == SubSeq(s, n + 1, Len(s))

Range(s) == {s[k] : k \in 1..Len(s)}

Perms(S) == {p \in [1..Cardinality(S) -> S] : Range(p) = S}

\* fetcher.py:155-162, list(set(matchesList)): the n collected ids in the
\* order the set yields them
ListsOfSet(n) == {[k \in 1..n |-> k], [k \in 1..n |-> n + 1 - k]}

\* the matchlist of a leftover file an earlier run left behind, n ids of
\* another window
PriorMatchlist(n) == [k \in 1..n |-> 10 + k]

\* the rank map built by run_fetcher (fetcher.py:117-124), puuid -> rank data
RankMaps ==
    { [p1 |-> [tier |-> "DIAMOND", rank |-> "I", lp |-> 10],
       p2 |-> [tier |-> None, rank |-> None, lp |-> 0]] }

(* ------------------------------ storage ------------------------------- *)

\* fetcher.py:158  key = f'backfill/matchlists/match_ids_{start}_{end}_.json'
MatchlistKey == <<"backfill/matchlists/", "cur", 0>>
\* processor.py:72  pm_key = f'player-maps/player-map_{start}_{end}_.json'
PlayerMapKey == <<"player-maps/", "cur", 0>>
\* processor.py:119,193  key = f'backfill/leftovers/leftovers_{start}_{end}_{len}_matches.json'
LeftoverKey(unprocessed_matches) == <<"backfill/leftovers/", "cur", Len(unprocessed_matches)>>
\* the key of a leftover file written by an earlier run over another window
PriorLeftoverKey(n) == <<"backfill/leftovers/", "prev", n>>

\* s3.put_object(Bucket, Key, Body)
PutObject(s, key, data) ==
    [k \in DOMAIN s \cup {key} |-> IF k = key THEN data ELSE s[k]]

\* s3.delete_object(Bucket, Key)
DeleteObject(s, key) == [k \in DOMAIN s \ {key} |-> s[k]]

\* check_files(bucket, prefix): the keys under the prefix
KeysUnder(s, prefix) == {k \in DOMAIN s : k[1] = prefix}

(* ------------------------------- state -------------------------------- *)

VARIABLES
    pc,              \* position of the main thread in main / run_fetcher / run_processor / run_leftovers
    exit_code,       \* process exit status, NoExit while running
    attempt,         \* loop variable of the retry loops (fetcher.py:169, processor.py:40)
    config,          \* load_config(): source and API_KEY_EXPIRATION
    now,             \* the wall clock, time.time()
    storage,         \* the bucket: key -> document
    collected,       \* fetcher.py:117-155, the rank map and the match ids run_fetcher collected
    start_time,      \* processor.py:33
    uniqueMatches, player_rank_map,
    i, current_index, no_data, total,
    match_data, timeline_data, active_threads,
    leftovers, lidx, api_expired,
    \* history of the run
    window_uploads,  \* upload_to_s3 calls made by run_fetcher for the window file
    fetched,         \* match ids for which match() was called, in order
    timelines,       \* match ids for which match_timeline() was called, in order
    attempted,       \* match ids fetched by the loop in progress
    nodata_ids,      \* match ids counted in no_data
    batched,         \* match ids in the batches handed to send_match_json
    ckpt,            \* the checkpoint decided by the last loop
    expired_seen,    \* a deadline check has observed now >= API_KEY_EXPIRATION
    raised,          \* the loop in progress ended in its except clause
    drained,         \* run_processor has flushed and joined
    \* state of the components modelled on their own
    successful_matches, \* ec2.py:181
    heap,            \* the list objects of the uploader's caller and of send_json: address -> list
    result,          \* what the last call of the function under study returned
    http_log,        \* the HTTP requests and the sleeps of one fetch call, in order
    \* locals of run_fetcher (fetcher.py:31-36, 64, 127, 132)
    high_elo_players, low_elo_players, matchesList, ranked_players,
    rank,            \* position in ranks, from 1
    division,        \* position in divisions, from 1
    page,
    api_calls,       \* the calls of highElo, LowElo and matchList, in order
    \* locals of lambda_handler (lambda_function.py:78-79, 106, 337) and the warehouse
    all_data,        \* the rows made of the file, in order
    conn,            \* the database connection and the transaction open on it
    transaction_state, \* <<>> while the local is not assigned, else <<its value>>
    warehouse,       \* the table: its columns and the rows committed, commit by commit
    \* history of main (main.py:17, 22, 28)
    stage_calls      \* the stages main called, in order, each with its argument

ctl == <<pc, exit_code, attempt>>
env == <<config, now, storage, collected>>
loc == <<start_time, uniqueMatches, player_rank_map, i, current_index, no_data, total,
         match_data, timeline_data, active_threads, leftovers, lidx, api_expired>>
hist == <<window_uploads, fetched, timelines, attempted, nodata_ids, batched, ckpt,
          expired_seen, raised, drained>>
fet == <<high_elo_players, low_elo_players, matchesList, ranked_players, rank, division,
         page, api_calls>>
lam == <<all_data, conn, transaction_state, warehouse>>
aux == <<successful_matches, heap, result, http_log, fet, lam, stage_calls>>
vars == <<ctl, env, loc, hist, aux>>

NoExit == 0 - 1
\* lambda_function.py:78-79: cursor = None, conn = None
NoConn == [open |-> FALSE, in_transaction |-> FALSE, pending |-> {}]
\* the table before a file is loaded
EmptyTable == [columns |-> {"puuid", "tier"}, commits |-> <<>>]

NoCkpt == [by |-> "none", stage |-> "none", key |-> <<>>, list |-> <<>>, at |-> 0,
           attempted |-> <<>>, unprocessed |-> <<>>, written |-> FALSE]

\* the outcomes of one storage operation: TRUE it succeeds, FALSE it fails
S3Outcomes == BOOLEAN

\* time.time(): the clock never runs backwards
ClockReads == now..MaxTime

Init ==
    /\ pc = "fetcher_upload"
    /\ exit_code = NoExit
    /\ attempt = 0
    /\ config \in [source : {"prod", "test"}, API_KEY_EXPIRATION : 0..(MaxTime + 1)]
    /\ now = 0
    /\ \E n \in 0..MaxPrior :
         storage = IF n = 0 THEN <<>>
                   ELSE PutObject(<<>>, PriorLeftoverKey(n),
                                  [matchlist |-> PriorMatchlist(n)])
    /\ \E n \in 0..MaxMatches :
         collected \in [player_rank_map : RankMaps, uniqueMatches : ListsOfSet(n)]
    /\ start_time = 0
    /\ uniqueMatches = <<>>
    /\ player_rank_map = <<>>
    /\ i = 0
    /\ current_index = 0
    /\ no_data = 0
    /\ total = 0
    /\ match_data = <<>>
    /\ timeline_data = <<>>
    /\ active_threads = <<>>
    /\ leftovers = <<>>
    /\ lidx = 0
    /\ api_expired = FALSE
    /\ window_uploads = 0
    /\ fetched = <<>>
    /\ timelines = <<>>
    /\ attempted = <<>>
    /\ nodata_ids = {}
    /\ batched = {}
    /\ ckpt = NoCkpt
    /\ expired_seen = FALSE
    /\ raised = FALSE
    /\ drained = FALSE
    /\ successful_matches = 0
    /\ heap = <<>>
    /\ result = None
    /\ http_log = <<>>
    /\ high_elo_players = <<>>
    /\ low_elo_players = <<>>
    /\ matchesList = <<>>
    /\ ranked_players = <<>>
    /\ rank = 1
    /\ division = 1
    /\ page = 1
    /\ api_calls = <<>>
    /\ all_data = <<>>
    /\ conn = NoConn
    /\ transaction_state = <<>>
    /\ warehouse = EmptyTable
    /\ stage_calls = <<>>

(* ----------------------------- run_fetcher ---------------------------- *)

\* the window document without the first collected match id
WindowDocument_DropsFirst(rank_map, matches) ==
    [ranked_map |-> rank_map, matchlist |-> SliceFrom(matches, 1)]

\* fetcher.py:160-163: the window document
WindowDocument(rank_map, matches) ==
    [ranked_map |-> rank_map, matchlist |-> matches]

\* fetcher.py:165-189 (one pass of the retry loop) and main.py:17-22
FetcherUpload ==
    /\ pc = "fetcher_upload"
    /\ UNCHANGED aux
    /\ window_uploads' = window_uploads + 1
    /\ \E ok \in S3Outcomes :
         IF ok
         THEN /\ storage' = PutObject(storage, MatchlistKey,
                                   WindowDocument(collected.player_rank_map,
                                                  collected.uniqueMatches))
              /\ pc' = "processor_pull"
              /\ attempt' = 0
              /\ UNCHANGED exit_code
         ELSE /\ storage' = storage
              /\ IF attempt + 1 < MAX_RETRIES
                 THEN /\ attempt' = attempt + 1
                      /\ UNCHANGED <<pc, exit_code>>
                 ELSE /\ pc' = "exit"
                      /\ exit_code' = 1
                      /\ attempt' = attempt
    /\ UNCHANGED <<config, now, collected, loc>>
    /\ UNCHANGED <<fetched, timelines, attempted, nodata_ids, batched, ckpt,
                   expired_seen, raised, drained>>

(* ------------------------- the match loop body ------------------------ *)

\* the values match() and match_timeline() return: no response, an error
\* envelope (a dict with a 'status' key), a usable payload
Responses == {None, "envelope", "payload"}

\* Utils/api.py:196-203: both tests return None and the function ends without
\* a return statement, so a usable payload yields None as well
handle_api_response(response) ==
    IF response = None THEN None
    ELSE IF response = "envelope" THEN None
    ELSE None

\* what the two API calls of one iteration do: "raise", or the two responses
ApiOutcomes == {<<"raise", None>>} \cup (Responses \X (Responses \cup {"raise"}))

\* send_match_json(data, ...): no handle for an empty batch, else the handle
\* of the upload thread it started
send_match_json(data, data_collection_type) ==
    IF data = <<>> THEN None
    ELSE [type |-> data_collection_type, matches |-> data]

AppendThread(threads, thread) ==
    IF thread = None THEN threads ELSE Append(threads, thread)

\* processor.py:130-174 (leftover.py:104-149): the two responses are
\* classified, a usable pair is appended to the accumulators, a full
\* accumulator is handed to the uploader
ProcessMatch(match_id, temp_data_match, temp_data_timeline) ==
    IF handle_api_response(temp_data_match) = None
    THEN /\ no_data' = no_data + 1
         /\ nodata_ids' = nodata_ids \cup {match_id}
         /\ UNCHANGED <<total, match_data, timeline_data, active_threads, batched>>
    ELSE IF handle_api_response(temp_data_timeline) = None
    THEN /\ no_data' = no_data + 1
         /\ nodata_ids' = nodata_ids \cup {match_id}
         /\ UNCHANGED <<total, match_data, timeline_data, active_threads, batched>>
    ELSE LET md == Append(match_data, match_id)
             td == Append(timeline_data, match_id)
             tfull == Len(td) >= TIMELINE_BATCH
             mfull == Len(md) >= MATCH_BATCH
             t1 == IF tfull
                   THEN AppendThread(active_threads, send_match_json(td, "match_timeline"))
                   ELSE active_threads
             t2 == IF mfull
                   THEN AppendThread(t1, send_match_json(md, "match"))
                   ELSE t1
         IN /\ total' = total + 1
            /\ timeline_data' = IF tfull THEN <<>> ELSE td
            /\ match_data' = IF mfull THEN <<>> ELSE md
            /\ active_threads' = t2
            /\ batched' = IF mfull THEN batched \cup Range(md) ELSE batched
            /\ UNCHANGED <<no_data, nodata_ids>>

\* processor.py:199-229 (leftover.py:169-199): the handles after the final
\* match batch and the final timeline batch were handed to the uploader
FlushedThreads ==
    AppendThread(AppendThread(active_threads, send_match_json(match_data, "match")),
                 send_match_json(timeline_data, "match_timeline"))

\* the locals a match loop starts from (processor.py:82-91, leftover.py:56-65)
StartLoop(matches) ==
    /\ uniqueMatches' = matches
    /\ i' = 0
    /\ current_index' = 0
    /\ no_data' = 0
    /\ match_data' = <<>>
    /\ timeline_data' = <<>>
    /\ active_threads' = <<>>
    /\ attempted' = <<>>
    /\ raised' = FALSE
    /\ ckpt' = NoCkpt

(* ---------------------------- run_processor --------------------------- *)

\* the deadline test with > for >=
KeyExpired_Strict(current_time) == current_time > config.API_KEY_EXPIRATION

\* processor.py:105 (leftover.py:78): the deadline test
KeyExpired(current_time) == current_time >= config.API_KEY_EXPIRATION

\* one pull too many before run_processor gives up
PULL_MAX_RETRIES_OneMore == 3 + 1

\* processor.py:37
PULL_MAX_RETRIES == 3

\* the first ids of the list are saved in place of the last ones
UnprocessedOnExpiry_Head(matches, idx) == SubSeq(matches, 1, Len(matches) - (idx + 1))

\* processor.py:110: the match ids saved when the deadline check at index
\* idx finds the key expired
UnprocessedOnExpiry(matches, idx) == SliceFrom(matches, idx + 1)

\* processor.py:184: the match ids saved by the except clause
UnprocessedOnError(matches, idx) ==
    IF idx < Len(matches) - 1 THEN SliceFrom(matches, idx + 1) ELSE <<>>

\* the leftover document in the shape of the window document
LeftoverDocument_WindowShape(unprocessed_matches, rank_map) ==
    [ranked_map |-> rank_map, matchlist |-> unprocessed_matches]

\* processor.py:114-116, 188-190: the leftover document
LeftoverDocument(unprocessed_matches, rank_map) ==
    [matchlist |-> unprocessed_matches]

\* processor.py:33-64: one pass of the pull retry loop, exit(7) after the
\* last; the loop variable is not read after the loop and is left at 0
ProcessorPull ==
    /\ pc = "processor_pull"
    /\ UNCHANGED aux
    /\ IF attempt = 0
       THEN \E t \in ClockReads : now' = t /\ start_time' = t
       ELSE UNCHANGED <<now, start_time>>
    /\ \E ok \in S3Outcomes :
         IF ok /\ MatchlistKey \in DOMAIN storage
         THEN /\ uniqueMatches' = storage[MatchlistKey].matchlist
              /\ player_rank_map' = storage[MatchlistKey].ranked_map
              /\ pc' = "processor_player_map"
              /\ attempt' = 0
              /\ UNCHANGED exit_code
         ELSE /\ UNCHANGED <<uniqueMatches, player_rank_map>>
              /\ IF attempt + 1 < PULL_MAX_RETRIES
                 THEN /\ attempt' = attempt + 1
                      /\ UNCHANGED <<pc, exit_code>>
                 ELSE /\ pc' = "exit"
                      /\ exit_code' = 7
                      /\ attempt' = attempt
    /\ UNCHANGED <<config, storage, collected, hist>>
    /\ UNCHANGED <<i, current_index, no_data, total, match_data, timeline_data,
                   active_threads, leftovers, lidx, api_expired>>

\* processor.py:69-94: the player-map upload, sys.exit(1) when it fails, then
\* the locals of the loop
ProcessorPlayerMap ==
    /\ pc = "processor_player_map"
    /\ UNCHANGED aux
    /\ \E ok \in S3Outcomes :
         IF ok
         THEN /\ storage' = PutObject(storage, PlayerMapKey, player_rank_map)
              /\ pc' = IF Len(uniqueMatches) = 0 THEN "processor_flush" ELSE "processor_loop"
              /\ StartLoop(uniqueMatches)
              /\ total' = 0
              /\ UNCHANGED exit_code
         ELSE /\ pc' = "exit"
              /\ exit_code' = 1
              /\ UNCHANGED <<storage, uniqueMatches, i, current_index, no_data, total,
                             match_data, timeline_data, active_threads, attempted, raised, ckpt>>
    /\ UNCHANGED <<attempt, config, now, collected, start_time, player_rank_map,
                   leftovers, lidx, api_expired>>
    /\ UNCHANGED <<window_uploads, fetched, timelines, nodata_ids, batched,
                   expired_seen, drained>>

\* processor.py:95-174: one iteration of the loop over uniqueMatches
ProcessorIter ==
    /\ pc = "processor_loop"
    /\ UNCHANGED aux
    /\ i < Len(uniqueMatches)
    /\ current_index' = i
    /\ \E t \in ClockReads :
         /\ now' = t
         /\ IF KeyExpired(t)
            THEN \E ok \in S3Outcomes :
                   LET unprocessed_matches == UnprocessedOnExpiry(uniqueMatches, i)
                       key == LeftoverKey(unprocessed_matches)
                   IN /\ expired_seen' = TRUE
                      /\ ckpt' = [by |-> "expiry", stage |-> "processor", key |-> key,
                                  list |-> uniqueMatches, at |-> i,
                                  attempted |-> attempted,
                                  unprocessed |-> unprocessed_matches, written |-> ok]
                      /\ IF ok
                         THEN /\ storage' = PutObject(storage, key,
                                    LeftoverDocument(unprocessed_matches, player_rank_map))
                              /\ pc' = "processor_flush"
                              /\ UNCHANGED <<raised>>
                         ELSE /\ pc' = "processor_except"
                              /\ raised' = TRUE
                              /\ storage' = storage
                      /\ UNCHANGED <<i, no_data, total, match_data, timeline_data,
                                     active_threads, fetched, timelines, attempted,
                                     nodata_ids, batched>>
            ELSE \E r \in ApiOutcomes :
                   LET match_id == uniqueMatches[i + 1]
                   IN /\ fetched' = Append(fetched, match_id)
                      /\ attempted' = Append(attempted, match_id)
                      /\ timelines' = IF r[1] = "raise" THEN timelines
                                      ELSE Append(timelines, match_id)
                      /\ IF "raise" \in {r[1], r[2]}
                         THEN /\ pc' = "processor_except"
                              /\ raised' = TRUE
                              /\ UNCHANGED <<i, no_data, total, match_data, timeline_data,
                                             active_threads, nodata_ids, batched>>
                         ELSE /\ ProcessMatch(match_id, r[1], r[2])
                              /\ i' = i + 1
                              /\ pc' = IF i + 1 < Len(uniqueMatches)
                                       THEN "processor_loop" ELSE "processor_flush"
                              /\ raised' = raised
                      /\ UNCHANGED <<storage, ckpt, expired_seen>>
    /\ UNCHANGED <<exit_code, attempt, config, collected, start_time, uniqueMatches,
                   player_rank_map, leftovers, lidx, api_expired, window_uploads, drained>>

\* an upload that reports its failure without raising, as alter_s3_file does
UploadRaisesInHandler_Swallowed ==
    /\ pc' = "processor_flush"
    /\ exit_code' = exit_code

\* processor.py:194 with Utils/S3.py:51-55 and main.py:42-48: upload_to_s3
\* re-raises inside the except clause, the exception leaves run_processor and
\* main exits with status 1
UploadRaisesInHandler ==
    /\ pc' = "exit"
    /\ exit_code' = 1

\* processor.py:176-195: the except clause; an upload_to_s3 that raises here
\* leaves run_processor and main exits with 1 (main.py:42-48)
ProcessorExcept ==
    /\ pc = "processor_except"
    /\ UNCHANGED aux
    /\ \E ok \in S3Outcomes :
         LET unprocessed_matches == UnprocessedOnError(uniqueMatches, current_index)
             key == LeftoverKey(unprocessed_matches)
         IN /\ ckpt' = [by |-> "error", stage |-> "processor", key |-> key,
                        list |-> uniqueMatches, at |-> current_index,
                        attempted |-> attempted,
                        unprocessed |-> unprocessed_matches, written |-> ok]
            /\ IF ok
               THEN /\ storage' = PutObject(storage, key,
                          LeftoverDocument(unprocessed_matches, player_rank_map))
                    /\ pc' = "processor_flush"
                    /\ UNCHANGED exit_code
               ELSE /\ UploadRaisesInHandler
                    /\ storage' = storage
    /\ UNCHANGED <<attempt, config, now, collected, loc>>
    /\ UNCHANGED <<window_uploads, fetched, timelines, attempted, nodata_ids, batched,
                   expired_seen, raised, drained>>

\* processor.py:197-229: the final batches are handed to the uploader
ProcessorFlush ==
    /\ pc = "processor_flush"
    /\ UNCHANGED aux
    /\ active_threads' = FlushedThreads
    /\ batched' = batched \cup Range(match_data)
    /\ match_data' = <<>>
    /\ timeline_data' = <<>>
    /\ pc' = "processor_join"
    /\ UNCHANGED <<exit_code, attempt, env>>
    /\ UNCHANGED <<start_time, uniqueMatches, player_rank_map, i, current_index, no_data,
                   total, leftovers, lidx, api_expired>>
    /\ UNCHANGED <<window_uploads, fetched, timelines, attempted, nodata_ids, ckpt,
                   expired_seen, raised, drained>>

\* processor.py:231-241: every handle is joined
ProcessorJoin ==
    /\ pc = "processor_join"
    /\ UNCHANGED aux
    /\ drained' = TRUE
    /\ pc' = "processor_delete"
    /\ UNCHANGED <<exit_code, attempt, env, loc>>
    /\ UNCHANGED <<window_uploads, fetched, timelines, attempted, nodata_ids, batched,
                   ckpt, expired_seen, raised>>

\* processor.py:243-256: the window file is deleted; alter_s3_file reports a
\* failed delete by returning False, which run_processor does not read
ProcessorDelete ==
    /\ pc = "processor_delete"
    /\ UNCHANGED aux
    /\ \E ok \in S3Outcomes :
         IF ok
         THEN /\ storage' = DeleteObject(storage, MatchlistKey)
         ELSE /\ storage' = storage
    /\ pc' = "leftovers_start"
    /\ UNCHANGED <<exit_code, attempt, config, now, collected, loc, hist>>

(* ---------------------------- run_leftovers --------------------------- *)

\* leftover.py:83: the match ids kept when the deadline check at index idx
\* finds the key expired
LeftoverUnprocessedOnExpiry(matches, idx) == SliceFrom(matches, idx + 1)

\* leftover.py:86-89, 160-162: the document written over the leftover file
LeftoverOverwriteDocument(unprocessed_matches) ==
    [matchlist |-> unprocessed_matches]

\* leftover.py:214: the leftover file counts as completely processed
LeftoverCompleted(idx, matches, expired) ==
    idx >= Len(matches) - 1 /\ ~expired

\* check_files(bucket, prefix): the listings of the keys under the prefix
check_files(s, prefix) == Perms(KeysUnder(s, prefix))

\* main.py:26-37 and leftover.py:24-45: test mode and an empty listing return
\* at once, and main completes
LeftoversStart ==
    /\ pc = "leftovers_start"
    /\ UNCHANGED aux
    /\ IF config.source = "test"
       THEN /\ pc' = "complete"
            /\ exit_code' = 0
            /\ UNCHANGED <<leftovers, lidx, total, api_expired>>
       ELSE \E listing \in check_files(storage, "backfill/leftovers/") :
              /\ leftovers' = listing
              /\ IF Len(listing) = 0
                 THEN /\ pc' = "complete"
                      /\ exit_code' = 0
                      /\ UNCHANGED <<lidx, total, api_expired>>
                 ELSE /\ pc' = "leftovers_next"
                      /\ lidx' = 0
                      /\ total' = 0
                      /\ api_expired' = FALSE
                      /\ exit_code' = exit_code
    /\ UNCHANGED <<attempt, env, hist>>
    /\ UNCHANGED <<start_time, uniqueMatches, player_rank_map, i, current_index, no_data,
                   match_data, timeline_data, active_threads>>

\* leftover.py:47-66 and 224-233: the head of the loop over the leftover
\* files; a pull that returns None makes line 52 raise, which main.py:29-37
\* reports before completing
LeftoversNext ==
    /\ pc = "leftovers_next"
    /\ UNCHANGED aux
    /\ IF lidx >= Len(leftovers)
       THEN /\ pc' = "complete"
            /\ exit_code' = 0
            /\ UNCHANGED <<lidx, uniqueMatches, i, current_index, no_data,
                           match_data, timeline_data, active_threads, attempted, raised, ckpt>>
       ELSE IF api_expired
       THEN /\ lidx' = lidx + 1
            /\ UNCHANGED <<pc, exit_code, uniqueMatches, i, current_index, no_data,
                           match_data, timeline_data, active_threads, attempted, raised, ckpt>>
       ELSE \E ok \in S3Outcomes :
              LET leftover == leftovers[lidx + 1]
              IN IF ok /\ leftover \in DOMAIN storage
                 THEN /\ StartLoop(storage[leftover].matchlist)
                      /\ pc' = IF Len(storage[leftover].matchlist) = 0
                               THEN "leftovers_flush" ELSE "leftovers_loop"
                      /\ UNCHANGED <<exit_code, lidx>>
                 ELSE /\ pc' = "complete"
                      /\ exit_code' = 0
                      /\ UNCHANGED <<lidx, uniqueMatches, i, current_index, no_data,
                                     match_data, timeline_data, active_threads, attempted,
                                     raised, ckpt>>
    /\ UNCHANGED <<attempt, config, now, storage, collected, start_time,
                   player_rank_map, total, leftovers, api_expired>>
    /\ UNCHANGED <<window_uploads, fetched, timelines, nodata_ids, batched,
                   expired_seen, drained>>

\* leftover.py:68-149: one iteration of the loop over the leftover's matches
LeftoversIter ==
    /\ pc = "leftovers_loop"
    /\ UNCHANGED aux
    /\ i < Len(uniqueMatches)
    /\ current_index' = i
    /\ \E t \in ClockReads :
         /\ now' = t
         /\ IF KeyExpired(t)
            THEN \E ok \in S3Outcomes :
                   LET unprocessed_matches == LeftoverUnprocessedOnExpiry(uniqueMatches, i)
                       key == leftovers[lidx + 1]
                   IN /\ expired_seen' = TRUE
                      /\ ckpt' = [by |-> "expiry", stage |-> "leftovers", key |-> key,
                                  list |-> uniqueMatches, at |-> i,
                                  attempted |-> attempted,
                                  unprocessed |-> unprocessed_matches, written |-> ok]
                      /\ IF ok
                         THEN /\ storage' = PutObject(storage, key,
                                    LeftoverOverwriteDocument(unprocessed_matches))
                         ELSE /\ storage' = storage
                      /\ api_expired' = TRUE
                      /\ pc' = "leftovers_flush"
                      /\ UNCHANGED <<i, no_data, total, match_data, timeline_data,
                                     active_threads, fetched, timelines, attempted,
                                     nodata_ids, batched, raised>>
            ELSE \E r \in ApiOutcomes :
                   LET match_id == uniqueMatches[i + 1]
                   IN /\ fetched' = Append(fetched, match_id)
                      /\ attempted' = Append(attempted, match_id)
                      /\ timelines' = IF r[1] = "raise" THEN timelines
                                      ELSE Append(timelines, match_id)
                      /\ IF "raise" \in {r[1], r[2]}
                         THEN /\ pc' = "leftovers_except"
                              /\ raised' = TRUE
                              /\ UNCHANGED <<i, no_data, total, match_data, timeline_data,
                                             active_threads, nodata_ids, batched>>
                         ELSE /\ ProcessMatch(match_id, r[1], r[2])
                              /\ i' = i + 1
                              /\ pc' = IF i + 1 < Len(uniqueMatches)
                                       THEN "leftovers_loop" ELSE "leftovers_flush"
                              /\ raised' = raised
                      /\ UNCHANGED <<storage, ckpt, expired_seen, api_expired>>
    /\ UNCHANGED <<exit_code, attempt, config, collected, start_time, uniqueMatches,
                   player_rank_map, leftovers, lidx, window_uploads, drained>>

\* leftover.py:151-167: the except clause; alter_s3_file reports a failed
\* overwrite by returning False
LeftoversExcept ==
    /\ pc = "leftovers_except"
    /\ UNCHANGED aux
    /\ IF current_index < Len(uniqueMatches) - 1
       THEN \E ok \in S3Outcomes :
              LET unprocessed_matches == SliceFrom(uniqueMatches, current_index + 1)
                  key == leftovers[lidx + 1]
              IN /\ ckpt' = [by |-> "error", stage |-> "leftovers", key |-> key,
                             list |-> uniqueMatches, at |-> current_index,
                             attempted |-> attempted,
                             unprocessed |-> unprocessed_matches, written |-> ok]
                 /\ IF ok
                    THEN /\ storage' = PutObject(storage, key,
                               LeftoverOverwriteDocument(unprocessed_matches))
                    ELSE /\ storage' = storage
       ELSE UNCHANGED <<ckpt, storage>>
    /\ pc' = "leftovers_flush"
    /\ UNCHANGED <<exit_code, attempt, config, now, collected, loc>>
    /\ UNCHANGED <<window_uploads, fetched, timelines, attempted, nodata_ids, batched,
                   expired_seen, raised, drained>>

\* leftover.py:169-211: the final batches are handed to the uploader and
\* every handle is joined
LeftoversFlush ==
    /\ pc = "leftovers_flush"
    /\ UNCHANGED aux
    /\ active_threads' = FlushedThreads
    /\ batched' = batched \cup Range(match_data)
    /\ match_data' = <<>>
    /\ timeline_data' = <<>>
    /\ pc' = "leftovers_finish"
    /\ UNCHANGED <<exit_code, attempt, env>>
    /\ UNCHANGED <<start_time, uniqueMatches, player_rank_map, i, current_index, no_data,
                   total, leftovers, lidx, api_expired>>
    /\ UNCHANGED <<window_uploads, fetched, timelines, attempted, nodata_ids, ckpt,
                   expired_seen, raised, drained>>

\* leftover.py:213-221: a completely processed leftover file is deleted
LeftoversFinish ==
    /\ pc = "leftovers_finish"
    /\ UNCHANGED aux
    /\ IF LeftoverCompleted(current_index, uniqueMatches, api_expired)
       THEN \E ok \in S3Outcomes :
              IF ok
              THEN /\ storage' = DeleteObject(storage, leftovers[lidx + 1])
              ELSE /\ storage' = storage
       ELSE UNCHANGED <<storage>>
    /\ lidx' = lidx + 1
    /\ pc' = "leftovers_next"
    /\ UNCHANGED <<exit_code, attempt, config, now, collected, hist>>
    /\ UNCHANGED <<start_time, uniqueMatches, player_rank_map, i, current_index, no_data,
                   total, match_data, timeline_data, active_threads, leftovers, api_expired>>

Next ==
    \/ FetcherUpload
    \/ ProcessorPull
    \/ ProcessorPlayerMap
    \/ ProcessorIter
    \/ ProcessorExcept
    \/ ProcessorFlush
    \/ ProcessorJoin
    \/ ProcessorDelete
    \/ LeftoversStart
    \/ LeftoversNext
    \/ LeftoversIter
    \/ LeftoversExcept
    \/ LeftoversFlush
    \/ LeftoversFinish

Spec == Init /\ [][Next]_vars

(* --------------- the loop body on given API responses ----------------- *)

\* the variables of the pipeline that the components below leave alone
rest == <<exit_code, start_time, leftovers, lidx, api_expired, window_uploads, ckpt,
          expired_seen, raised, drained>>

RestInit ==
    /\ exit_code = NoExit
    /\ start_time = 0
    /\ leftovers = <<>>
    /\ lidx = 0
    /\ api_expired = FALSE
    /\ window_uploads = 0
    /\ ckpt = NoCkpt
    /\ expired_seen = FALSE
    /\ raised = FALSE
    /\ drained = FALSE
    /\ high_elo_players = <<>>
    /\ low_elo_players = <<>>
    /\ matchesList = <<>>
    /\ ranked_players = <<>>
    /\ rank = 1
    /\ division = 1
    /\ page = 1
    /\ api_calls = <<>>
    /\ all_data = <<>>
    /\ conn = NoConn
    /\ transaction_state = <<>>
    /\ warehouse = EmptyTable
    /\ stage_calls = <<>>

\* what match() and match_timeline() return for one match id
ResponsePairs == Responses \X Responses

\* run_processor at processor.py:95 with the window pulled, a key that does
\* not expire and the responses of the API given for each position of the
\* match list
ClassifyInit ==
    /\ pc = "classify_loop"
    /\ attempt = 0
    /\ config \in [source : {"prod", "test"}, API_KEY_EXPIRATION : {MaxTime + 1}]
    /\ now = 0
    /\ storage = <<>>
    /\ \E n \in 0..MaxMatches :
         collected \in [player_rank_map : RankMaps, uniqueMatches : ListsOfSet(n),
                        responses : [1..n -> ResponsePairs]]
    /\ uniqueMatches = collected.uniqueMatches
    /\ player_rank_map = collected.player_rank_map
    /\ i = 0
    /\ current_index = 0
    /\ no_data = 0
    /\ total = 0
    /\ match_data = <<>>
    /\ timeline_data = <<>>
    /\ active_threads = <<>>
    /\ fetched = <<>>
    /\ timelines = <<>>
    /\ attempted = <<>>
    /\ nodata_ids = {}
    /\ batched = {}
    /\ successful_matches = 0
    /\ heap = <<>>
    /\ result = None
    /\ http_log = <<>>
    /\ RestInit

\* processor.py:95-174 (leftover.py:68-149): one iteration whose two API
\* calls return the given responses; over an empty match list the for
\* statement runs no iteration and the loop is left at once
ClassifyIter ==
    /\ pc = "classify_loop"
    /\ IF i < Len(uniqueMatches)
       THEN /\ current_index' = i
            /\ LET match_id == uniqueMatches[i + 1]
                   r == collected.responses[i + 1]
               IN /\ fetched' = Append(fetched, match_id)
                  /\ timelines' = Append(timelines, match_id)
                  /\ attempted' = Append(attempted, match_id)
                  /\ ProcessMatch(match_id, r[1], r[2])
            /\ i' = i + 1
            /\ pc' = IF i + 1 < Len(uniqueMatches) THEN "classify_loop"
                     ELSE "classify_done"
       ELSE /\ pc' = "classify_done"
            /\ UNCHANGED <<i, current_index, fetched, timelines, attempted, no_data,
                           nodata_ids, total, match_data, timeline_data,
                           active_threads, batched>>
    /\ UNCHANGED <<attempt, env, uniqueMatches, player_rank_map, rest, aux>>
    /\ UNCHANGED <<fet, lam, stage_calls>>

ClassifyNext ==
    \/ ClassifyIter

ClassifySpec == ClassifyInit /\ [][ClassifyNext]_vars

(* -------------------- the batch uploader (Utils/S3.py) ---------------- *)

\* most calls of send_json the caller of the uploader makes
MaxCalls == 2
\* most records the caller of the uploader appends to its list
MaxBatch == 2

\* milliseconds in a day: strftime('%Y'), ('%m'), ('%d') of a time in ms
MS_PER_DAY == 86400000

\* The list objects of Python and the caller's variable matches: matches is
\* the address the variable is bound to, objects maps an address to the
\* list stored there.  Addresses are 0, 1, 2, ...
EmptyHeap == [matches |-> 0, objects |-> [a \in {0} |-> <<>>]]

NewAddress(h) == Cardinality(DOMAIN h.objects)

\* the heap with the list stored at address a (a new address or an old one)
Store(h, a, list) ==
    [h EXCEPT !.objects = [b \in DOMAIN h.objects \cup {a} |->
                              IF b = a THEN list ELSE h.objects[b]]]

\* json.loads(json.dumps(data)) of a list of dicts: a new list of new dicts
\* with the keys and values of the old ones
JsonRoundTrip(data) ==
    [k \in 1..Len(data) |-> [f \in DOMAIN data[k] |-> data[k][f]]]

\* `if not data` with a one-record batch taken for an empty one
Falsy_ShortBatch(data) == Len(data) <= 1

\* S3.py:67 `if not data` for a list
Falsy(data) == data = <<>>

\* send_json building the document around the caller's own list
DataCopyRef_Shared(data_ref, h) == data_ref

\* S3.py:71: data_copy is a new object
DataCopyRef(data_ref, h) == NewAddress(h)

\* S3.py:74-83: the date of the folder; custom_date is <<>> for None, else
\* <<day>>, and clock is datetime.now(timezone.utc) in ms
UploadDate(custom_date, clock) ==
    IF custom_date # <<>>
    THEN [day |-> custom_date[1], custom |-> TRUE]
    ELSE [day |-> clock \div MS_PER_DAY, custom |-> FALSE]

\* S3.py:89-95: year, month and day of the date, the time in ms, the number
\* of records; source is <<>> for None, else <<source>>
S3Key(upload_date, timestamp, match_count, source) ==
    <<IF source = <<"test">> THEN "test/matches/" ELSE "matches/",
      upload_date.day, timestamp, match_count>>

\* S3.py:57-116.  data_ref is the address of the list passed as data, h the
\* heap, clock_date and clock_ts what datetime.now() and time.time() read.
\* The result is <<>> (None) or <<thread>> and the heap after the call.  A
\* thread holds the arguments of upload_to_s3: the key, the metadata and the
\* address of the list of the document.  held tells that send_json has
\* returned and the caller holds the handle.  data_ref, enqueued, written and
\* raced are history: the list passed as data and its value at the call,
\* what the thread put in the bucket, and whether the list passed as data
\* had changed by then.
send_json(data_ref, custom_date, source, h, clock_date, clock_ts) ==
    LET data == h.objects[data_ref]
    IN IF Falsy(data)
       THEN [thread |-> <<>>, heap |-> h]
       ELSE LET copy_ref == DataCopyRef(data_ref, h)
                h2 == Store(h, copy_ref, JsonRoundTrip(data))
                upload_date == UploadDate(custom_date, clock_date)
                timestamp == clock_ts
                match_count == Len(h2.objects[copy_ref])
                s3_key == S3Key(upload_date, timestamp, match_count, source)
            IN [thread |-> <<[s3_key |-> s3_key,
                              metadata |-> [upload_timestamp |-> upload_date,
                                            match_count |-> match_count,
                                            batch_id |-> <<upload_date.day, timestamp>>,
                                            s3_key |-> s3_key],
                              matches_ref |-> copy_ref,
                              state |-> "running",
                              joined |-> FALSE,
                              held |-> TRUE,
                              data_ref |-> data_ref,
                              enqueued |-> data,
                              written |-> <<>>,
                              raced |-> FALSE]>>,
                heap |-> h2]

\* S3.py:98-106 as upload_to_s3 serialises it (S3.py:44): the document of a
\* thread, read from the heap when the thread runs
EnhancedData(thread, h) ==
    [metadata |-> thread.metadata, matches |-> h.objects[thread.matches_ref]]

\* Thread.join() returning while the thread still runs
JoinReturns_NoWait(thread) == TRUE

\* Thread.join(): returns once the thread has ended, by return or by an
\* exception in upload_to_s3; it returns None in both cases
JoinReturns(thread) == thread.state # "running"

(* ------------------ the one-shot collector (ec2.py) ------------------- *)

\* ec2.py:219
EC2_BATCH == 500

\* what match() does for one match id of ec2.py
Ec2Responses == Responses \cup {"raise"}

\* a usable match payload: a dict whose info.participants carry a puuid
MatchPayload(match_id) ==
    [id |-> match_id,
     info |-> [participants |-> <<[puuid |-> "p1", kills |-> 1],
                                  [puuid |-> "p3", kills |-> 2]>>]]

\* ec2.py:200-211: tier, rank and lp of the rank map, or UNKNOWN
EnrichParticipant(participant, rank_map) ==
    IF participant.puuid \in DOMAIN rank_map
    THEN [puuid |-> participant.puuid, kills |-> participant.kills,
          tier |-> rank_map[participant.puuid].tier,
          rank |-> rank_map[participant.puuid].rank,
          lp |-> rank_map[participant.puuid].lp]
    ELSE [puuid |-> participant.puuid, kills |-> participant.kills,
          tier |-> "UNKNOWN", rank |-> None, lp |-> None]

\* ec2.py:200-213
EnrichedMatch(temp_data, rank_map, source) ==
    [id |-> temp_data.id,
     info |-> [participants |->
                  [k \in 1..Len(temp_data.info.participants) |->
                      EnrichParticipant(temp_data.info.participants[k], rank_map)]],
     source |-> source]

\* ec2.py:178-187 with the responses of the API given for each position
Ec2Init ==
    /\ pc = "ec2_loop"
    /\ attempt = 0
    /\ config \in [source : {"NA", "test"}, API_KEY_EXPIRATION : {MaxTime + 1}]
    /\ now = 0
    /\ storage = <<>>
    /\ \E n \in 0..MaxMatches :
         collected \in [player_rank_map : RankMaps, uniqueMatches : ListsOfSet(n),
                        responses : [1..n -> Ec2Responses]]
    /\ uniqueMatches = collected.uniqueMatches
    /\ player_rank_map = collected.player_rank_map
    /\ i = 0
    /\ current_index = 0
    /\ no_data = 0
    /\ total = 0
    /\ match_data = <<>>
    /\ timeline_data = <<>>
    /\ active_threads = <<>>
    /\ fetched = <<>>
    /\ timelines = <<>>
    /\ attempted = <<>>
    /\ nodata_ids = {}
    /\ batched = {}
    /\ successful_matches = 0
    /\ heap = EmptyHeap
    /\ result = None
    /\ http_log = <<>>
    /\ RestInit

\* ec2.py:190-227: one iteration; an exception ends the loop (ec2.py:226);
\* over an empty match list the for statement runs no iteration
Ec2Iter ==
    /\ pc = "ec2_loop"
    /\ IF i < Len(uniqueMatches)
       THEN /\ LET match_id == uniqueMatches[i + 1]
                   temp_data == collected.responses[i + 1]
                   more == IF i + 1 < Len(uniqueMatches) THEN "ec2_loop" ELSE "ec2_flush"
               IN /\ fetched' = Append(fetched, match_id)
                  /\ IF temp_data = "raise"
                     THEN /\ pc' = "ec2_flush"
                          /\ UNCHANGED <<i, no_data, nodata_ids, total, successful_matches, heap,
                                         active_threads, now>>
                     ELSE IF handle_api_response(temp_data) = None
                     THEN /\ no_data' = no_data + 1
                          /\ nodata_ids' = nodata_ids \cup {match_id}
                          /\ i' = i + 1
                          /\ pc' = more
                          /\ UNCHANGED <<total, successful_matches, heap, active_threads, now>>
                     ELSE LET record == EnrichedMatch(MatchPayload(match_id), player_rank_map,
                                                      config.source)
                              h1 == Store(heap, heap.matches,
                                          Append(heap.objects[heap.matches], record))
                          IN /\ successful_matches' = successful_matches + 1
                             /\ total' = total + 1
                             /\ i' = i + 1
                             /\ pc' = more
                             /\ UNCHANGED <<no_data, nodata_ids>>
                             /\ IF (successful_matches + 1) % EC2_BATCH = 0
                                THEN \E t1 \in ClockReads : \E t2 \in t1..MaxTime :
                                       LET copied == Store(h1, NewAddress(h1),
                                                           h1.objects[h1.matches])
                                           sent == send_json(NewAddress(h1), <<>>, <<>>, copied,
                                                             t1, t2)
                                           fresh == NewAddress(sent.heap)
                                       IN /\ active_threads' = active_threads \o sent.thread
                                          /\ heap' = [Store(sent.heap, fresh, <<>>)
                                                        EXCEPT !.matches = fresh]
                                          /\ now' = t2
                                ELSE /\ heap' = h1
                                     /\ UNCHANGED <<active_threads, now>>
       ELSE /\ pc' = "ec2_flush"
            /\ UNCHANGED <<i, fetched, no_data, nodata_ids, total, successful_matches,
                           heap, active_threads, now>>
    /\ UNCHANGED <<attempt, config, storage, collected, uniqueMatches, player_rank_map,
                   current_index, match_data, timeline_data, timelines, attempted,
                   batched, result, http_log, rest>>
    /\ UNCHANGED <<fet, lam, stage_calls>>

\* ec2.py:229-234: the remaining matches are handed to send_json
Ec2Flush ==
    /\ pc = "ec2_flush"
    /\ IF heap.objects[heap.matches] # <<>>
       THEN \E t1 \in ClockReads : \E t2 \in t1..MaxTime :
              LET sent == send_json(heap.matches, <<>>, <<>>, heap, t1, t2)
              IN /\ active_threads' = active_threads \o sent.thread
                 /\ heap' = sent.heap
                 /\ now' = t2
       ELSE UNCHANGED <<active_threads, heap, now>>
    /\ pc' = "ec2_join"
    /\ UNCHANGED <<attempt, config, storage, collected, uniqueMatches, player_rank_map,
                   i, current_index, no_data, total, match_data, timeline_data,
                   fetched, timelines, attempted, nodata_ids, batched,
                   successful_matches, result, http_log, rest>>
    /\ UNCHANGED <<fet, lam, stage_calls>>

\* ec2.py:236-253: every thread of active_threads is joined in turn, then the
\* counts are printed
Ec2Join ==
    /\ pc = "ec2_join"
    /\ \A k \in 1..Len(active_threads) : JoinReturns(active_threads[k])
    /\ active_threads' = [k \in 1..Len(active_threads) |->
                             [active_threads[k] EXCEPT !.joined = TRUE]]
    /\ pc' = "ec2_done"
    /\ UNCHANGED <<attempt, env, uniqueMatches, player_rank_map, i, current_index,
                   no_data, total, match_data, timeline_data, fetched, timelines,
                   attempted, nodata_ids, batched, rest, aux>>
    /\ UNCHANGED <<fet, lam, stage_calls>>

Ec2Next ==
    \/ Ec2Iter
    \/ Ec2Flush
    \/ Ec2Join

Ec2Spec == Ec2Init /\ [][Ec2Next]_vars

(* ------------- the uploader under a caller that drains it ------------- *)

\* A caller of send_json that keeps one list, appends records to it, hands
\* it to send_json any number of times and then joins the handles it
\* received, as ec2.py:214, 232-234 and 236-242 do.  result records the last
\* call that returned: its number, the value of data and what send_json
\* returned.  active_threads holds the threads send_json started, in order;
\* the last one is not yet held by the caller while send_json has not
\* returned.
UploadInit ==
    /\ pc = "driver_calls"
    /\ attempt = 0
    /\ config \in [source : {"NA", "test"}, API_KEY_EXPIRATION : {MaxTime + 1}]
    /\ now = 0
    /\ storage = <<>>
    /\ collected = [player_rank_map |-> <<>>, uniqueMatches |-> <<>>]
    /\ uniqueMatches = <<>>
    /\ player_rank_map = <<>>
    /\ i = 0
    /\ current_index = 0
    /\ no_data = 0
    /\ total = 0
    /\ match_data = <<>>
    /\ timeline_data = <<>>
    /\ active_threads = <<>>
    /\ fetched = <<>>
    /\ timelines = <<>>
    /\ attempted = <<>>
    /\ nodata_ids = {}
    /\ batched = {}
    /\ successful_matches = 0
    /\ heap = EmptyHeap
    /\ result = [calls |-> 0, data |-> <<>>, ret |-> <<>>]
    /\ http_log = <<>>
    /\ RestInit

\* ec2.py:214-215: a record is appended to the caller's list, in place
DriverAppend ==
    /\ pc = "driver_calls"
    /\ successful_matches < MaxBatch
    /\ heap' = Store(heap, heap.matches,
                     Append(heap.objects[heap.matches], [id |-> successful_matches + 1]))
    /\ successful_matches' = successful_matches + 1
    /\ UNCHANGED <<ctl, env, loc, hist, result, http_log>>
    /\ UNCHANGED <<fet, lam, stage_calls>>

\* ec2.py:224: matches = [], the caller's variable is bound to a new list
DriverReset ==
    /\ pc = "driver_calls"
    /\ heap.objects[heap.matches] # <<>>
    /\ heap' = [Store(heap, NewAddress(heap), <<>>) EXCEPT !.matches = NewAddress(heap)]
    /\ UNCHANGED <<ctl, env, loc, hist, successful_matches, result, http_log>>
    /\ UNCHANGED <<fet, lam, stage_calls>>

\* ec2.py:232 with S3.py:67-113: thread = send_json(matches, bucket) is
\* called, with no custom_date and no source.  For an empty list send_json
\* returns None at once; else it copies the list, builds the key and the
\* document and starts the thread, which runs from then on while send_json
\* goes on to its print (S3.py:115)
DriverSend ==
    /\ pc = "driver_calls"
    /\ result.calls < MaxCalls
    /\ \E t1 \in ClockReads : \E t2 \in t1..MaxTime :
         LET sent == send_json(heap.matches, <<>>, <<>>, heap, t1, t2)
         IN /\ heap' = sent.heap
            /\ now' = t2
            /\ IF sent.thread = <<>>
               THEN /\ result' = [calls |-> result.calls + 1,
                                  data |-> heap.objects[heap.matches],
                                  ret |-> <<>>]
                    /\ UNCHANGED <<pc, active_threads>>
               ELSE /\ active_threads' =
                          Append(active_threads, [sent.thread[1] EXCEPT !.held = FALSE])
                    /\ pc' = "driver_print"
                    /\ UNCHANGED result
    /\ UNCHANGED <<exit_code, attempt, config, storage, collected, start_time,
                   uniqueMatches, player_rank_map, i, current_index, no_data, total,
                   match_data, timeline_data, leftovers, lidx, api_expired, hist,
                   successful_matches, http_log>>
    /\ UNCHANGED <<fet, lam, stage_calls>>

\* S3.py:115-116 and ec2.py:233-234: send_json prints and returns the
\* thread, whether it still runs or has ended, and the caller appends the
\* handle to its list
DriverReturn ==
    /\ pc = "driver_print"
    /\ LET k == Len(active_threads)
       IN /\ active_threads' = [active_threads EXCEPT ![k].held = TRUE]
          /\ result' = [calls |-> result.calls + 1,
                        data |-> active_threads[k].enqueued,
                        ret |-> <<k>>]
    /\ pc' = "driver_calls"
    /\ UNCHANGED <<exit_code, attempt, env, start_time, uniqueMatches, player_rank_map,
                   i, current_index, no_data, total, match_data, timeline_data,
                   leftovers, lidx, api_expired, hist, successful_matches, heap,
                   http_log>>
    /\ UNCHANGED <<fet, lam, stage_calls>>

\* S3.py:41-55 run by a thread: the document is serialised and put in the
\* bucket, or the put fails and the exception ends the thread
UploadThread ==
    /\ \E k \in 1..Len(active_threads) :
         /\ active_threads[k].state = "running"
         /\ \E ok \in S3Outcomes :
              LET thread == active_threads[k]
                  document == EnhancedData(thread, heap)
              IN IF ok
                 THEN /\ storage' = PutObject(storage, thread.s3_key, document)
                      /\ active_threads' =
                            [active_threads EXCEPT ![k] =
                                [thread EXCEPT !.state = "done",
                                               !.written = <<document>>,
                                               !.raced =
                                                   heap.objects[thread.data_ref]
                                                       # thread.enqueued]]
                 ELSE /\ storage' = storage
                      /\ active_threads' =
                            [active_threads EXCEPT ![k] = [thread EXCEPT !.state = "failed"]]
    /\ UNCHANGED <<ctl, config, now, collected, start_time, uniqueMatches,
                   player_rank_map, i, current_index, no_data, total, match_data,
                   timeline_data, leftovers, lidx, api_expired, hist, aux>>
    /\ UNCHANGED <<fet, lam, stage_calls>>

\* ec2.py:236-237: the caller stops enqueueing and starts the join loop
DriverDrain ==
    /\ pc = "driver_calls"
    /\ pc' = "driver_join"
    /\ i' = 0
    /\ UNCHANGED <<exit_code, attempt, env, start_time, uniqueMatches, player_rank_map,
                   current_index, no_data, total, match_data, timeline_data,
                   active_threads, leftovers, lidx, api_expired, hist, aux>>
    /\ UNCHANGED <<fet, lam, stage_calls>>

\* ec2.py:238-240 (processor.py:234-236): thread.join() for the next handle
DriverJoin ==
    /\ pc = "driver_join"
    /\ i < Len(active_threads)
    /\ JoinReturns(active_threads[i + 1])
    /\ active_threads' = [active_threads EXCEPT ![i + 1].joined = TRUE]
    /\ i' = i + 1
    /\ UNCHANGED <<ctl, env, start_time, uniqueMatches, player_rank_map,
                   current_index, no_data, total, match_data, timeline_data,
                   leftovers, lidx, api_expired, hist, aux>>
    /\ UNCHANGED <<fet, lam, stage_calls>>

\* ec2.py:242 (processor.py:238): "All uploads completed!"
DriverDone ==
    /\ pc = "driver_join"
    /\ i = Len(active_threads)
    /\ pc' = "driver_done"
    /\ UNCHANGED <<exit_code, attempt, env, loc, hist, aux>>
    /\ UNCHANGED <<fet, lam, stage_calls>>

UploadNext ==
    \/ DriverAppend
    \/ DriverReset
    \/ DriverSend
    \/ DriverReturn
    \/ UploadThread
    \/ DriverDrain
    \/ DriverJoin
    \/ DriverDone

UploadSpec == UploadInit /\ [][UploadNext]_vars

(* ----------------- the HTTP fetch functions (Utils/api.py) ------------ *)

\* largest value of the max_retries / retries argument
MaxBudget == 3

\* api_utils.py:93, 100: time.sleep(120)
LEGACY_SLEEP == 120

\* the Retry-After header of a response: absent, or its text
RetryAfterValues == {"absent", "7", "0", "-1", "Wed, 21 Oct 2015 07:28:00 GMT"}

\* the X-Rate-Limit-Type header of a response
RateLimitTypes == {"personal", "service", "unknown"}

\* int(text): <<n>>, or <<>> when int() raises ValueError
IntOf(text) ==
    IF text = "7" THEN <<7>>
    ELSE IF text = "0" THEN <<0>>
    ELSE IF text = "-1" THEN <<0 - 1>>
    ELSE <<>>

\* what requests.get(url) does: it raises a RequestException, or it returns a
\* response with a status code, the two headers and a body that is JSON or
\* is not
HttpResponse(status_code, retry_after, rate_limit_type, body) ==
    [kind |-> "response", status_code |-> status_code, retry_after |-> retry_after,
     rate_limit_type |-> rate_limit_type, body |-> body]

HttpOutcomes ==
    {[kind |-> "exception", status_code |-> 0, retry_after |-> "absent",
      rate_limit_type |-> "unknown", body |-> "json"]}
    \cup {HttpResponse(200, "absent", "unknown", b) : b \in {"json", "not_json"}}
    \cup {HttpResponse(c, "absent", "unknown", "json") : c \in {204, 404, 451, 503}}
    \cup {HttpResponse(503, "7", "unknown", "json")}
    \cup {HttpResponse(429, "absent", t, "json") : t \in RateLimitTypes}
    \cup {HttpResponse(429, r, "unknown", "json") : r \in RetryAfterValues \ {"absent"}}

\* random.uniform(0.1, 0.3), in tenths
Jitters == {1, 3}

Min(a, b) == IF a <= b THEN a ELSE b

\* api.py:15-48, in tenths of a second: the wait, or raised when
\* int(retry_after) raises ValueError
handle_rate_limit_response(response) ==
    IF response.retry_after # "absent"
    THEN IF IntOf(response.retry_after) = <<>>
         THEN [raised |-> TRUE, wait |-> 0]
         ELSE [raised |-> FALSE, wait |-> 10 * IntOf(response.retry_after)[1]]
    ELSE IF response.status_code = 429
         THEN IF response.rate_limit_type = "personal" THEN [raised |-> FALSE, wait |-> 10 * 1]
              ELSE IF response.rate_limit_type = "service"
                   THEN [raised |-> FALSE, wait |-> 10 * 30]
                   ELSE [raised |-> FALSE, wait |-> 10 * 10]
         ELSE [raised |-> FALSE, wait |-> 10 * Min(60, 2 ^ (3 - 1))]

\* api.py:50-57, in tenths of a second, for a jitter of jitter tenths
exponential_backoff(attempt_no, jitter) ==
    LET delay == Min(1 * (2 ^ attempt_no), 60)
    IN 10 * delay + jitter * delay

\* the entries of http_log
GetEvent(response) ==
    [ev |-> IF response.kind = "exception" THEN "get_exception" ELSE "get",
     status_code |-> response.status_code, retry_after |-> response.retry_after,
     wait |-> 0]
SleepEvent(wait) ==
    [ev |-> "sleep", status_code |-> 0, retry_after |-> "absent", wait |-> wait]

\* One call of make_api_request_with_smart_backoff(url, max_retries) or of
\* match(id, key, retries) of EC2/api_utils.py.  config holds the function
\* called, its retry argument and whether the JSONDecodeError of
\* response.json() is a RequestException (it is from requests 2.27 on).
FetchInit ==
    /\ pc = "fetch_call"
    /\ attempt = 0
    /\ config \in [fn : {"make_api_request_with_smart_backoff", "api_utils.match"},
                   max_retries : 0..MaxBudget,
                   json_error_is_request_exception : BOOLEAN]
    /\ now = 0
    /\ storage = <<>>
    /\ collected = [player_rank_map |-> <<>>, uniqueMatches |-> <<>>]
    /\ uniqueMatches = <<>>
    /\ player_rank_map = <<>>
    /\ i = 0
    /\ current_index = 0
    /\ no_data = 0
    /\ total = 0
    /\ match_data = <<>>
    /\ timeline_data = <<>>
    /\ active_threads = <<>>
    /\ fetched = <<>>
    /\ timelines = <<>>
    /\ attempted = <<>>
    /\ nodata_ids = {}
    /\ batched = {}
    /\ successful_matches = 0
    /\ heap = <<>>
    /\ result = "pending"
    /\ http_log = <<>>
    /\ RestInit

\* the call returns value
FetchReturns(value) ==
    /\ pc' = "fetch_done"
    /\ result' = value

\* the call ends by raising the exception, "ValueError" or "TypeError"
FetchRaises(exception) ==
    /\ pc' = "fetch_done"
    /\ result' = exception

\* the loop goes on to its next pass, or the call returns None at api.py:103
\* when the pass was the last one
FetchContinues ==
    IF attempt + 1 < config.max_retries
    THEN /\ pc' = "fetch_call"
         /\ UNCHANGED result
    ELSE FetchReturns(None)

\* api.py:94-101: the except clause
FetchHandlesRequestException(log) ==
    IF attempt = config.max_retries - 1
    THEN /\ http_log' = log
         /\ attempt' = attempt
         /\ FetchReturns(None)
    ELSE \E jitter \in Jitters :
           /\ http_log' = Append(log, SleepEvent(exponential_backoff(attempt, jitter)))
           /\ attempt' = attempt + 1
           /\ pc' = "fetch_call"
           /\ UNCHANGED result

\* api.py:65-103: one pass of the retry loop
FetchAttempt ==
    /\ pc = "fetch_call"
    /\ config.fn = "make_api_request_with_smart_backoff"
    /\ attempt < config.max_retries
    /\ \E response \in HttpOutcomes :
         LET log == Append(http_log, GetEvent(response))
         IN IF response.kind = "exception"
            THEN FetchHandlesRequestException(log)
            ELSE IF response.status_code = 200
            THEN IF response.body = "json"
                 THEN /\ http_log' = log
                      /\ attempt' = attempt
                      /\ FetchReturns("payload")
                 ELSE IF config.json_error_is_request_exception
                      THEN FetchHandlesRequestException(log)
                      ELSE /\ http_log' = log
                           /\ attempt' = attempt
                           /\ FetchRaises("ValueError")
            ELSE IF response.status_code >= 429
            THEN IF attempt = config.max_retries - 1
                 THEN /\ http_log' = log
                      /\ attempt' = attempt
                      /\ FetchReturns(None)
                 ELSE IF response.status_code = 429
                 THEN LET hint == handle_rate_limit_response(response)
                      IN IF hint.raised \/ hint.wait < 0
                         THEN /\ http_log' = log
                              /\ attempt' = attempt
                              /\ FetchRaises("ValueError")
                         ELSE /\ http_log' = Append(log, SleepEvent(hint.wait))
                              /\ attempt' = attempt + 1
                              /\ pc' = "fetch_call"
                              /\ UNCHANGED result
                 ELSE \E jitter \in Jitters :
                        /\ http_log' = Append(log, SleepEvent(
                                                  exponential_backoff(attempt, jitter)))
                        /\ attempt' = attempt + 1
                        /\ pc' = "fetch_call"
                        /\ UNCHANGED result
            ELSE IF 400 <= response.status_code /\ response.status_code < 429
            THEN /\ http_log' = log
                 /\ attempt' = attempt
                 /\ FetchReturns(None)
            ELSE /\ http_log' = log
                 /\ attempt' = attempt + 1
                 /\ FetchContinues
    /\ UNCHANGED <<exit_code, env, loc, hist, successful_matches, heap>>
    /\ UNCHANGED <<fet, lam, stage_calls>>

\* api.py:65, 103: range(max_retries) is empty, the call returns None
FetchNoBudget ==
    /\ pc = "fetch_call"
    /\ config.fn = "make_api_request_with_smart_backoff"
    /\ config.max_retries <= 0
    /\ FetchReturns(None)
    /\ UNCHANGED <<exit_code, attempt, env, loc, hist, successful_matches, heap, http_log>>
    /\ UNCHANGED <<fet, lam, stage_calls>>

\* what the body of a response holds for match() of EC2/api_utils.py: a match
\* payload, an error envelope with the status code of its 'status' key, or
\* no JSON
LegacyOutcomes ==
    {[kind |-> "exception", status_code |-> 0],
     [kind |-> "payload", status_code |-> 0],
     [kind |-> "not_json", status_code |-> 0]}
    \cup {[kind |-> "envelope", status_code |-> c] : c \in {404, 420, 429, 503}}

\* api_utils.py:77-110: one level of the recursion of match(id, key, retries);
\* retries is max_retries less the levels above
LegacyMatch ==
    /\ pc = "fetch_call"
    /\ config.fn = "api_utils.match"
    /\ LET retries == config.max_retries - attempt
       IN IF retries <= 0
          THEN /\ FetchRaises("TypeError")
               /\ UNCHANGED <<attempt, http_log>>
          ELSE \E response \in LegacyOutcomes :
                 LET log == Append(http_log,
                                   [ev |-> IF response.kind = "exception"
                                           THEN "get_exception" ELSE "get",
                                    status_code |-> response.status_code,
                                    retry_after |-> "absent", wait |-> 0])
                     again == /\ http_log' = Append(log, SleepEvent(10 * LEGACY_SLEEP))
                              /\ attempt' = attempt + 1
                              /\ pc' = "fetch_call"
                              /\ UNCHANGED result
                     ends(value) == /\ http_log' = log
                                    /\ attempt' = attempt
                                    /\ FetchReturns(value)
                 IN IF response.kind = "exception"
                    THEN again
                    ELSE IF response.kind = "not_json"
                    THEN IF config.json_error_is_request_exception
                         THEN again
                         ELSE /\ http_log' = log
                              /\ attempt' = attempt
                              /\ FetchRaises("ValueError")
                    ELSE IF response.kind = "payload"
                    THEN ends("payload")
                    ELSE IF response.status_code >= 429
                    THEN again
                    ELSE IF response.status_code <= 415
                    THEN ends("envelope")
                    ELSE ends(None)
    /\ UNCHANGED <<exit_code, env, loc, hist, successful_matches, heap>>
    /\ UNCHANGED <<fet, lam, stage_calls>>

FetchNext ==
    \/ FetchAttempt
    \/ FetchNoBudget
    \/ LegacyMatch

FetchSpec == FetchInit /\ [][FetchNext]_vars

(* ------------------- run_fetcher: roster and match ids ---------------- *)

\* largest MAX_PLAYER_COUNT of the small configurations
MaxCap == 2

\* most entries of one ladder response in the small configurations
MaxPage == 1

\* fetcher.py:34-36
ranks == <<"master", "grandmaster", "challenger">>
divisions == <<"I", "II", "III", "IV">>
tiers == <<"DIAMOND">>

\* config['MAX_PLAYER_COUNT']: the small caps, and the cap of 100 players
Caps == (1..MaxCap) \cup {100}

\* the sizes of the ladder responses of a run: up to MaxPage entries, and 40
\* entries a ladder (or none, past the top tiers) under the cap of 100 players
EntryCounts(cap) == IF cap > MaxCap THEN {0, 40} ELSE 0..MaxPage

\* config['API_KEY'] is os.environ.get("API_KEY"): a str, or None
ApiKeys == {[type |-> "str"], [type |-> "NoneType"]}

\* n entries of a ladder response; the puuids follow base, and 0 stands for
\* the empty puuid
Entries(n, base, tier, division_name) ==
    [k \in 1..n |-> [puuid |-> base + k, tier |-> tier, rank |-> division_name,
                     leaguePoints |-> 10]]

\* what highElo(rank, key) does: it raises, or it returns None, a dict
\* without 'entries', a dict with n entries, or a dict with one entry whose
\* puuid is empty
HighEloOutcomes(cap) ==
    IF cap > MaxCap
    THEN {[kind |-> "entries", n |-> 40]}
    ELSE {[kind |-> k, n |-> 0] : k \in {"raise", "none", "no_entries"}}
         \cup {[kind |-> "entries", n |-> c] : c \in EntryCounts(cap)}
         \cup {[kind |-> "blank", n |-> 1]}

\* what LowElo(tier, division, page, key) does: it raises, or it returns
\* None or a list of n entries
LowEloOutcomes(cap) ==
    IF cap > MaxCap
    THEN {[kind |-> "entries", n |-> c] : c \in EntryCounts(cap)}
    ELSE {[kind |-> k, n |-> 0] : k \in {"raise", "none"}}
         \cup {[kind |-> "entries", n |-> c] : c \in EntryCounts(cap)}

\* an empty list counts as a page with players
Truthy_AnyList(outcome) == outcome.kind = "entries"

\* fetcher.py:66 "if json_response:" - neither None nor an empty list
Truthy(outcome) == outcome.kind = "entries" /\ outcome.n > 0

\* the entry of api_calls for one call: the function, its arguments, what the
\* call did and, for matchList, what the request of the call would have got
ApiCall(fn, rank_pos, division_pos, page_no, puuid, outcome, answer) ==
    [fn |-> fn, rank |-> rank_pos, division |-> division_pos, page |-> page_no,
     puuid |-> puuid, kind |-> outcome.kind, n |-> outcome.n, answer |-> answer.kind]

\* fetcher.py:48, 76, 80, 82: len(low_elo_players) + len(high_elo_players)
PlayerCount(high, low) == Len(low) + Len(high)

\* the cap counts as reached only when it is exceeded
ReachedCap_Exceeded(count, cap) == count > cap

\* fetcher.py:48, 76, 80, 82: "... >= config['MAX_PLAYER_COUNT']"
ReachedCap(count, cap) == count >= cap

\* fetcher.py:93-113: ranked_players before the cut
NormalizedPlayers(high, low) ==
    [k \in 1..Len(high) |-> [puuid |-> high[k].puuid, tier |-> None, rank |-> None,
                            lp |-> high[k].leaguePoints]]
    \o [k \in 1..Len(low) |-> [puuid |-> low[k].puuid, tier |-> low[k].tier,
                              rank |-> low[k].rank, lp |-> low[k].leaguePoints]]

\* fetcher.py:117-124: puuid -> rank data, the last player of a puuid wins
PlayerRankMap(players) ==
    [p \in {players[k].puuid : k \in 1..Len(players)} |->
        LET last == CHOOSE k \in 1..Len(players) :
                        /\ players[k].puuid = p
                        /\ \A j \in (k + 1)..Len(players) : players[j].puuid # p
        IN [tier |-> players[last].tier, rank |-> players[last].rank,
            lp |-> players[last].lp]]

\* fetcher.py:126: ranked_players[:cap], for cap >= 0
CutAt(players, cap) == SubSeq(players, 1, IF cap < Len(players) THEN cap ELSE Len(players))

\* list(set(matchesList)): the ids without repetition, in any order
Orderings(S) ==
    {order \in [1..Cardinality(S) -> S] :
        \A a, b \in 1..Cardinality(S) : order[a] = order[b] => a = b}

\* the sys.exit(1) of an except clause is left out
FetcherExits_GoesOn ==
    /\ pc' = "fetcher_upload"
    /\ exit_code' = exit_code

\* sys.exit(1) of an except clause of run_fetcher
FetcherExits ==
    /\ pc' = "exit"
    /\ exit_code' = 1

\* fetcher.py:91-128: the roster is complete, the rank map is built and the
\* loop over the players starts
FetcherBuildsRankMap(high, low) ==
    /\ pc' = "fetcher_matchlist"
    /\ ranked_players' = CutAt(NormalizedPlayers(high, low), config.MAX_PLAYER_COUNT)
    /\ collected' = [player_rank_map |-> PlayerRankMap(NormalizedPlayers(high, low)),
                     uniqueMatches |-> <<>>]
    /\ UNCHANGED exit_code

RunFetcherInit ==
    /\ pc = "fetcher_high_elo"
    /\ attempt = 0
    /\ config \in [source : {"prod"}, API_KEY_EXPIRATION : {MaxTime + 1},
                   MAX_PLAYER_COUNT : Caps, API_KEY : ApiKeys]
    /\ now = 0
    /\ storage = <<>>
    /\ collected = [player_rank_map |-> <<>>, uniqueMatches |-> <<>>]
    /\ uniqueMatches = <<>>
    /\ player_rank_map = <<>>
    /\ i = 0
    /\ current_index = 0
    /\ no_data = 0
    /\ total = 0
    /\ match_data = <<>>
    /\ timeline_data = <<>>
    /\ active_threads = <<>>
    /\ fetched = <<>>
    /\ timelines = <<>>
    /\ attempted = <<>>
    /\ nodata_ids = {}
    /\ batched = {}
    /\ successful_matches = 0
    /\ heap = <<>>
    /\ result = None
    /\ http_log = <<>>
    /\ RestInit

\* fetcher.py:40-57: one pass of the loop over ranks, and at its end the test
\* of fetcher.py:60
FetcherHighElo ==
    /\ pc = "fetcher_high_elo"
    /\ \E outcome \in HighEloOutcomes(config.MAX_PLAYER_COUNT) :
         LET base == PlayerCount(high_elo_players, low_elo_players)
             entries == IF outcome.kind = "entries"
                        THEN Entries(outcome.n, base, None, None)
                        ELSE IF outcome.kind = "blank"
                        THEN Entries(1, 0 - 1, None, None)
                        ELSE <<>>
             high == high_elo_players \o entries
             reached == /\ outcome.kind \in {"entries", "blank"}
                        /\ ReachedCap(PlayerCount(high, low_elo_players),
                                      config.MAX_PLAYER_COUNT)
         IN /\ api_calls' = Append(api_calls,
                                   ApiCall("highElo", rank, 0, 0, 0, outcome, outcome))
            /\ IF outcome.kind = "raise"
               THEN /\ FetcherExits
                    /\ UNCHANGED <<high_elo_players, rank, ranked_players, collected>>
               ELSE /\ high_elo_players' = high
                    /\ IF reached \/ rank = Len(ranks)
                       THEN /\ rank' = rank
                            /\ IF ~ReachedCap(PlayerCount(high, low_elo_players),
                                              config.MAX_PLAYER_COUNT)
                               THEN /\ pc' = "fetcher_low_elo"
                                    /\ UNCHANGED <<exit_code, ranked_players, collected>>
                               ELSE FetcherBuildsRankMap(high, low_elo_players)
                       ELSE /\ rank' = rank + 1
                            /\ UNCHANGED <<pc, exit_code, ranked_players, collected>>
    /\ UNCHANGED <<attempt, config, now, storage, loc, hist, successful_matches, heap,
                   result, http_log, low_elo_players, matchesList, division, page>>
    /\ UNCHANGED <<lam, stage_calls>>

\* fetcher.py:61-83: one pass of the while loop of a division of DIAMOND
FetcherLowElo ==
    /\ pc = "fetcher_low_elo"
    /\ \E outcome \in LowEloOutcomes(config.MAX_PLAYER_COUNT) :
         LET base == PlayerCount(high_elo_players, low_elo_players)
             low == low_elo_players
                    \o Entries(outcome.n, base, tiers[1], divisions[division])
         IN /\ api_calls' = Append(api_calls,
                                   ApiCall("LowElo", 0, division, page, 0, outcome,
                                           outcome))
            /\ IF outcome.kind = "raise"
               THEN /\ FetcherExits
                    /\ UNCHANGED <<low_elo_players, division, page, ranked_players,
                                   collected>>
               ELSE IF Truthy(outcome)
               THEN /\ low_elo_players' = low
                    /\ page' = page + 1
                    /\ division' = division
                    /\ IF ReachedCap(PlayerCount(high_elo_players, low),
                                     config.MAX_PLAYER_COUNT)
                       THEN FetcherBuildsRankMap(high_elo_players, low)
                       ELSE UNCHANGED <<pc, exit_code, ranked_players, collected>>
               ELSE /\ low_elo_players' = low_elo_players
                    /\ IF division = Len(divisions)
                       THEN /\ UNCHANGED <<division, page>>
                            /\ FetcherBuildsRankMap(high_elo_players, low_elo_players)
                       ELSE /\ division' = division + 1
                            /\ page' = 1
                            /\ UNCHANGED <<pc, exit_code, ranked_players, collected>>
    /\ UNCHANGED <<attempt, config, now, storage, loc, hist, successful_matches, heap,
                   result, http_log, high_elo_players, matchesList, rank>>
    /\ UNCHANGED <<lam, stage_calls>>

\* the retries argument of the calls that leave it out
DefaultRetries == [type |-> "int"]

\* what the request of matchList gets for a player: the fetch raises, or it
\* gives None, an error envelope or a list of match ids
MatchListAnswers(puuid) ==
    {[kind |-> k, n |-> 0, ids |-> <<>>] : k \in {"raise", "none", "envelope"}}
    \cup {[kind |-> "list", n |-> Len(ids), ids |-> ids] :
              ids \in {<<>>, <<puuid>>, <<puuid, puuid + 1>>}}

\* Utils/api.py:116-119 and 65: matchList(puuid, key, epochTime, retries)
\* hands retries to make_api_request_with_smart_backoff, whose
\* range(max_retries) raises TypeError unless retries is an int; else the
\* call does what its request gets
matchList(puuid, key, epochTime, retries, answer) ==
    IF retries.type # "int"
    THEN [kind |-> "raise", n |-> 0, ids |-> <<>>]
    ELSE answer

\* fetcher.py:132-154: one pass of the loop over ranked_players
FetcherMatchList ==
    /\ pc = "fetcher_matchlist"
    /\ i < Len(ranked_players)
    /\ LET player == ranked_players[i + 1]
       IN IF player.puuid = 0
          THEN /\ i' = i + 1
               /\ UNCHANGED <<pc, exit_code, matchesList, api_calls>>
          ELSE \E answer \in MatchListAnswers(player.puuid) :
                 LET tempMatches == matchList(player.puuid, "start_epoch", "end_epoch",
                                              config.API_KEY, answer)
                 IN
                 /\ api_calls' = Append(api_calls, ApiCall("matchList", 0, 0, 0,
                                                           player.puuid, tempMatches,
                                                           answer))
                 /\ IF tempMatches.kind = "raise"
                    THEN /\ FetcherExits
                         /\ UNCHANGED <<i, matchesList>>
                    ELSE /\ i' = i + 1
                         /\ matchesList' = IF tempMatches.kind = "list"
                                           THEN matchesList \o tempMatches.ids
                                           ELSE matchesList
                         /\ UNCHANGED <<pc, exit_code>>
    /\ UNCHANGED <<attempt, env, start_time, uniqueMatches, player_rank_map,
                   current_index, no_data, total, match_data, timeline_data,
                   active_threads, leftovers, lidx, api_expired, hist,
                   successful_matches, heap, result, http_log, high_elo_players,
                   low_elo_players, ranked_players, rank, division, page>>
    /\ UNCHANGED <<lam, stage_calls>>

\* fetcher.py:156-167: the loop is over, the window document is made
FetcherWindow ==
    /\ pc = "fetcher_matchlist"
    /\ i = Len(ranked_players)
    /\ \E order \in Orderings(Range(matchesList)) :
         collected' = [collected EXCEPT !.uniqueMatches = order]
    /\ pc' = "fetcher_upload"
    /\ attempt' = 0
    /\ UNCHANGED <<exit_code, config, now, storage, loc, hist, aux>>

RunFetcherNext ==
    \/ FetcherHighElo
    \/ FetcherLowElo
    \/ FetcherMatchList
    \/ FetcherWindow
    \/ FetcherUpload

RunFetcherSpec == RunFetcherInit /\ [][RunFetcherNext]_vars

(* ----------------------- main.py: the exit codes ---------------------- *)

\* fetcher.py:16, 19
FETCHER_IMPORT_EXIT == 1
\* processor.py:17, 26
PROCESSOR_IMPORT_EXIT == 7
\* leftover.py:17, 22
LEFTOVER_IMPORT_EXIT == 8

\* The process at the imports of main.py (main.py:4), or the try block of
\* main entered with a config (main.py:15), with the inputs of Init.
MainInit ==
    /\ pc \in {"main_imports", "fetcher_upload"}
    /\ exit_code = NoExit
    /\ attempt = 0
    /\ config \in [source : {"prod", "test"}, API_KEY_EXPIRATION : 0..(MaxTime + 1)]
    /\ now = 0
    /\ \E n \in 0..MaxPrior :
         storage = IF n = 0 THEN <<>>
                   ELSE PutObject(<<>>, PriorLeftoverKey(n),
                                  [matchlist |-> PriorMatchlist(n)])
    /\ \E n \in 0..MaxMatches :
         collected \in [player_rank_map : RankMaps, uniqueMatches : ListsOfSet(n)]
    /\ start_time = 0
    /\ uniqueMatches = <<>>
    /\ player_rank_map = <<>>
    /\ i = 0
    /\ current_index = 0
    /\ no_data = 0
    /\ total = 0
    /\ match_data = <<>>
    /\ timeline_data = <<>>
    /\ active_threads = <<>>
    /\ leftovers = <<>>
    /\ lidx = 0
    /\ api_expired = FALSE
    /\ window_uploads = 0
    /\ fetched = <<>>
    /\ timelines = <<>>
    /\ attempted = <<>>
    /\ nodata_ids = {}
    /\ batched = {}
    /\ ckpt = NoCkpt
    /\ expired_seen = FALSE
    /\ raised = FALSE
    /\ drained = FALSE
    /\ successful_matches = 0
    /\ heap = <<>>
    /\ result = None
    /\ http_log = <<>>
    /\ high_elo_players = <<>>
    /\ low_elo_players = <<>>
    /\ matchesList = <<>>
    /\ ranked_players = <<>>
    /\ rank = 1
    /\ division = 1
    /\ page = 1
    /\ api_calls = <<>>
    /\ all_data = <<>>
    /\ conn = NoConn
    /\ transaction_state = <<>>
    /\ warehouse = EmptyTable
    /\ stage_calls = <<>>

\* main.py:4-7 with the import guards fetcher.py:6-19, processor.py:5-26 and
\* leftover.py:5-22: the modules are imported in this order and the first one
\* whose imports fail ends the process with its code; result keeps the cause.
\* When every import succeeds main() is called (main.py:50-51)
MainImports ==
    /\ pc = "main_imports"
    /\ \E failed \in {"none", "fetcher", "processor", "leftover"} :
         IF failed = "none"
         THEN /\ pc' = "main_load_config"
              /\ UNCHANGED <<exit_code, result>>
         ELSE /\ pc' = "exit"
              /\ result' = "ImportError"
              /\ exit_code' = IF failed = "fetcher" THEN FETCHER_IMPORT_EXIT
                              ELSE IF failed = "processor" THEN PROCESSOR_IMPORT_EXIT
                              ELSE LEFTOVER_IMPORT_EXIT
    /\ UNCHANGED <<attempt, env, loc, hist, successful_matches, heap, http_log, fet, lam, stage_calls>>

\* config_loader.py:4-7: the first statement of load_config is sys.exit(1),
\* the return statement after it is never reached
load_config == [kind |-> "SystemExit", value |-> <<>>, code |-> 1]

\* main.py:10: load_config is called outside the try statement, so what it
\* raises ends main
MainLoadConfig ==
    /\ pc = "main_load_config"
    /\ IF load_config.kind = "return"
       THEN /\ pc' = "main_fetcher"
            /\ UNCHANGED exit_code
       ELSE /\ pc' = "exit"
            /\ exit_code' = IF load_config.kind = "SystemExit" THEN load_config.code ELSE 1
    /\ UNCHANGED <<attempt, env, loc, hist, aux>>

MainNext ==
    \/ MainImports
    \/ MainLoadConfig
    \/ Next

MainSpec == MainInit /\ [][MainNext]_vars

(* ------------------- main run again over the same bucket -------------- *)

\* most runs of main over one bucket
MaxRuns == 2

\* The first run of main over an empty bucket, with a window of at least one
\* match id.  collected also keeps the match ids of the window of the first
\* run and the number of the run in progress.
ResumeInit ==
    /\ pc = "fetcher_upload"
    /\ exit_code = NoExit
    /\ attempt = 0
    /\ config \in [source : {"prod"}, API_KEY_EXPIRATION : 0..(MaxTime + 1)]
    /\ now = 0
    /\ storage = <<>>
    /\ \E n \in 1..MaxMatches : \E window \in ListsOfSet(n) : \E rank_map \in RankMaps :
         collected = [player_rank_map |-> rank_map, uniqueMatches |-> window,
                      first_window |-> window, runs |-> 1]
    /\ uniqueMatches = <<>>
    /\ player_rank_map = <<>>
    /\ i = 0
    /\ current_index = 0
    /\ no_data = 0
    /\ total = 0
    /\ match_data = <<>>
    /\ timeline_data = <<>>
    /\ active_threads = <<>>
    /\ fetched = <<>>
    /\ timelines = <<>>
    /\ attempted = <<>>
    /\ nodata_ids = {}
    /\ batched = {}
    /\ successful_matches = 0
    /\ heap = <<>>
    /\ result = None
    /\ http_log = <<>>
    /\ RestInit

\* A later process over the same bucket: the run before completed, the
\* operator runs the container again with the bucket as it was left, the
\* start and end epochs of the first run (so the window file and the player
\* map of the later run have the keys of the first run's) and the expiration
\* of the key of that day.  The later process is at the call of main
\* (main.py:9), or the try block of main is entered with that config
\* (main.py:15).  run_fetcher of the later run finds no player: it collects
\* no match id and an empty rank map, the ids of the first window are only
\* in what the first run left in the bucket.  The locals start anew, the
\* history of the requests is kept.
MainRunsAgain ==
    /\ pc = "complete"
    /\ collected.runs < MaxRuns
    /\ pc' \in {"main_load_config", "fetcher_upload"}
    /\ exit_code' = NoExit
    /\ attempt' = 0
    /\ \E expiration \in 0..(MaxTime + 1) :
         config' = [config EXCEPT !.API_KEY_EXPIRATION = expiration]
    /\ collected' = [collected EXCEPT !.uniqueMatches = <<>>, !.player_rank_map = <<>>,
                                      !.runs = @ + 1]
    /\ start_time' = now
    /\ uniqueMatches' = <<>>
    /\ player_rank_map' = <<>>
    /\ i' = 0
    /\ current_index' = 0
    /\ no_data' = 0
    /\ total' = 0
    /\ match_data' = <<>>
    /\ timeline_data' = <<>>
    /\ active_threads' = <<>>
    /\ leftovers' = <<>>
    /\ lidx' = 0
    /\ api_expired' = FALSE
    /\ attempted' = <<>>
    /\ ckpt' = NoCkpt
    /\ expired_seen' = FALSE
    /\ raised' = FALSE
    /\ drained' = FALSE
    /\ UNCHANGED <<now, storage, window_uploads, fetched, timelines, nodata_ids, batched,
                   aux>>

ResumeNext ==
    \/ MainRunsAgain
    \/ MainLoadConfig
    \/ Next

ResumeSpec == ResumeInit /\ [][ResumeNext]_vars

(* ------------- main over stages given by the way they end ------------- *)

\* the codes with which the stages end the process (fetcher.py:57,
\* processor.py:61, leftover.py:17)
StageExitCodes == {1, 7, 8}

\* the ways a call ends: it returns a value, it ends the process with a code
\* (SystemExit), or it raises another exception
StageEnds(values) ==
    [kind : {"return"}, value : values, code : {0}]
        \cup [kind : {"SystemExit"}, value : {<<>>}, code : StageExitCodes]
        \cup [kind : {"Exception"}, value : {<<>>}, code : {0}]

\* the except clauses of main pass no code on
MainExcept_AlwaysOne(e) == 1

\* main.py:39-48: SystemExit is raised again and keeps its code, any other
\* exception ends the process with code 1
MainExcept(e) == IF e.kind = "SystemExit" THEN e.code ELSE 1

\* main is called (main.py:9), or its try block is entered with a config
\* (main.py:15); collected holds the way each stage will end, the returned
\* value of run_fetcher being the window key or a falsy value
MainTryInit ==
    /\ pc \in {"main_load_config", "main_fetcher"}
    /\ attempt = 0
    /\ config \in [source : {"prod"}, API_KEY_EXPIRATION : {MaxTime + 1}]
    /\ now = 0
    /\ storage = <<>>
    /\ collected \in [run_fetcher : StageEnds({<<>>, <<MatchlistKey>>}),
                      run_processor : StageEnds({<<>>}),
                      run_leftovers : StageEnds({<<>>})]
    /\ uniqueMatches = <<>>
    /\ player_rank_map = <<>>
    /\ i = 0
    /\ current_index = 0
    /\ no_data = 0
    /\ total = 0
    /\ match_data = <<>>
    /\ timeline_data = <<>>
    /\ active_threads = <<>>
    /\ fetched = <<>>
    /\ timelines = <<>>
    /\ attempted = <<>>
    /\ nodata_ids = {}
    /\ batched = {}
    /\ successful_matches = 0
    /\ heap = <<>>
    /\ result = <<>>
    /\ http_log = <<>>
    /\ RestInit

\* main.py:17-24: run_fetcher(config); its value decides whether
\* run_processor is called
MainRunFetcher ==
    /\ pc = "main_fetcher"
    /\ stage_calls' = Append(stage_calls, [stage |-> "run_fetcher", args |-> <<config>>])
    /\ LET end == collected.run_fetcher
       IN IF end.kind = "return"
          THEN /\ result' = end.value
               /\ pc' = IF end.value # <<>> THEN "main_processor" ELSE "main_leftovers"
               /\ UNCHANGED exit_code
          ELSE /\ pc' = "exit"
               /\ exit_code' = MainExcept(end)
               /\ UNCHANGED result
    /\ UNCHANGED <<attempt, env, loc, hist, successful_matches, heap, http_log, fet, lam>>

\* main.py:22: run_processor(config, matchlist)
MainRunProcessor ==
    /\ pc = "main_processor"
    /\ stage_calls' = Append(stage_calls, [stage |-> "run_processor",
                                           args |-> <<config, result[1]>>])
    /\ LET end == collected.run_processor
       IN IF end.kind = "return"
          THEN /\ pc' = "main_leftovers"
               /\ UNCHANGED exit_code
          ELSE /\ pc' = "exit"
               /\ exit_code' = MainExcept(end)
    /\ UNCHANGED <<attempt, env, loc, hist, successful_matches, heap, result, http_log,
                   fet, lam>>

\* main.py:26-37: run_leftovers(config) in a try statement of its own, whose
\* except clause prints an Exception and goes on to the end of main
MainRunLeftovers ==
    /\ pc = "main_leftovers"
    /\ stage_calls' = Append(stage_calls, [stage |-> "run_leftovers", args |-> <<config>>])
    /\ LET end == collected.run_leftovers
       IN IF end.kind \in {"return", "Exception"}
          THEN /\ pc' = "complete"
               /\ exit_code' = 0
          ELSE /\ pc' = "exit"
               /\ exit_code' = MainExcept(end)
    /\ UNCHANGED <<attempt, env, loc, hist, successful_matches, heap, result, http_log,
                   fet, lam>>

MainTryNext ==
    \/ MainLoadConfig
    \/ MainRunFetcher
    \/ MainRunProcessor
    \/ MainRunLeftovers

MainTrySpec == MainTryInit /\ [][MainTryNext]_vars

\* main is one thread of straight-line code: the statement it stands at is
\* executed
MainFairSpec == MainTryInit /\ [][MainTryNext]_vars /\ WF_vars(MainTryNext)

(* ------------- the warehouse loader (Lambda/lambda_function.py) ------- *)

\* most full row-batches of one file
MaxFullBatches == 2

\* lambda_function.py:335
BATCH_SIZE == 200

\* the numbers of rows a file gives: full batches, and full batches and a row
RowCounts == {BATCH_SIZE * b + r : b \in 0..MaxFullBatches, r \in {0, 1}}

\* the first row of a file that carries a key which is no column of the
\* table: no row (0), or the first row of a batch
NewKeyRows == {0} \cup {BATCH_SIZE * b + 1 : b \in 0..MaxFullBatches}

\* lambda_function.py:95-312: the rows made of a file of n records, in the
\* order of the file; the rows from new_from on carry the key "lp"
Rows(n, new_from) ==
    [k \in 1..n |->
        [id |-> k,
         keys |-> IF new_from > 0 /\ k >= new_from
                  THEN {"puuid", "tier", "lp"} ELSE {"puuid", "tier"}]]

\* the key of the file of the event, as send_json makes it (S3.py:89-95)
LoaderFileKey(n) == S3Key(UploadDate(<<>>, 0), 0, n, <<>>)

\* Utils/sql.py:77-101
format_error_response(error, error_type, status_code) ==
    [kind |-> "response", statusCode |-> status_code, error_type |-> error_type,
     error |-> error]

\* lambda_function.py:497-500
SuccessResponse ==
    [kind |-> "response", statusCode |-> 200, error_type |-> None, error |-> None]

\* the handler ends by an exception that reaches the caller
ExceptionEscapes(error) ==
    [kind |-> "exception", statusCode |-> 0, error_type |-> None, error |-> error]

\* lambda_function.py:423-472: the except clauses of the handler, in their
\* order; the clause of mysql.connector.Error reads transaction_state, which
\* raises UnboundLocalError while the local is not assigned
HandlerResponse(error, state) ==
    IF error \in {"NoSuchBucket", "NoSuchKey"}
    THEN format_error_response(error, "s3_error", 404)
    ELSE IF error = "mysql.connector.Error"
    THEN IF state = <<>>
         THEN ExceptionEscapes("UnboundLocalError")
         ELSE format_error_response(error, "mysql_error", 500)
    ELSE IF error = "KeyError"
    THEN format_error_response(error, "data_structure_error", 400)
    ELSE format_error_response(error, "unexpected_error", 500)

\* ROLLBACK, and the end of a connection: the rows inserted since the last
\* commit are dropped
Rollback(c) == [c EXCEPT !.in_transaction = FALSE, !.pending = {}]
Closed(c) == [open |-> FALSE, in_transaction |-> FALSE, pending |-> {}]

\* the rows inserted on the connection since the last commit become rows of
\* the table; by is the statement that committed them
Committed(w, c, by) == [w EXCEPT !.commits = Append(@, [by |-> by, rows |-> c.pending])]

\* the rows of the table
TableRows == UNION {warehouse.commits[k].rows : k \in 1..Len(warehouse.commits)}

\* lambda_handler is called for the file of an event; config is the event,
\* the bucket holds the file or does not
LoaderInit ==
    /\ pc = "lambda_credentials"
    /\ attempt = 0
    /\ \E n \in RowCounts : \E new_from \in NewKeyRows : \E present \in BOOLEAN :
         /\ new_from <= n
         /\ config = [fileKey |-> LoaderFileKey(n)]
         /\ storage = IF present
                      THEN PutObject(<<>>, LoaderFileKey(n),
                                     [records |-> n, new_from |-> new_from])
                      ELSE <<>>
    /\ now = 0
    /\ collected = [player_rank_map |-> <<>>, uniqueMatches |-> <<>>]
    /\ uniqueMatches = <<>>
    /\ player_rank_map = <<>>
    /\ i = 0
    /\ current_index = 0
    /\ no_data = 0
    /\ total = 0
    /\ match_data = <<>>
    /\ timeline_data = <<>>
    /\ active_threads = <<>>
    /\ fetched = <<>>
    /\ timelines = <<>>
    /\ attempted = <<>>
    /\ nodata_ids = {}
    /\ batched = {}
    /\ successful_matches = 0
    /\ heap = <<>>
    /\ result = [kind |-> "pending", statusCode |-> 0, error_type |-> None, error |-> None]
    /\ http_log = <<>>
    /\ RestInit

\* the variables the loader leaves alone
LoaderFrame ==
    UNCHANGED <<exit_code, attempt, config, now, storage, collected, start_time,
                uniqueMatches, player_rank_map, current_index, no_data, total,
                match_data, timeline_data, active_threads, leftovers, lidx, api_expired,
                hist, successful_matches, heap, http_log, fet, stage_calls>>

\* the handler ends: the exception goes through the except clauses of
\* lambda_function.py:423-472 and the finally clause closes the connection
LoaderFails(error) ==
    /\ result' = HandlerResponse(error, transaction_state)
    /\ conn' = Closed(conn)
    /\ pc' = "lambda_done"

\* lambda_function.py:42-73: the credentials are read, or a response with
\* status 500 is returned
LoaderCredentials ==
    /\ pc = "lambda_credentials"
    /\ \E ok \in BOOLEAN :
         IF ok
         THEN /\ pc' = "lambda_read"
              /\ UNCHANGED result
         ELSE /\ pc' = "lambda_done"
              /\ result' = format_error_response("ValueError", "ssm_parameter_error", 500)
    /\ UNCHANGED <<i, lam, stage_calls>>
    /\ LoaderFrame

\* what reading and flattening the file does: the rows are made, the file is
\* not there, the read fails otherwise, the body is no JSON, a key of the
\* structure is missing
ReadOutcomes == {"rows", "NoSuchKey", "ClientError", "JSONDecodeError", "KeyError"}

\* lambda_function.py:75-312
LoaderRead ==
    /\ pc = "lambda_read"
    /\ \E outcome \in ReadOutcomes :
         /\ outcome = "rows" => config.fileKey \in DOMAIN storage
         /\ outcome \in {"JSONDecodeError", "KeyError"} => config.fileKey \in DOMAIN storage
         /\ outcome = "NoSuchKey" <=> config.fileKey \notin DOMAIN storage
         /\ IF outcome = "rows"
            THEN /\ all_data' = Rows(storage[config.fileKey].records,
                                     storage[config.fileKey].new_from)
                 /\ pc' = "lambda_connect"
                 /\ UNCHANGED <<result, conn>>
            ELSE /\ LoaderFails(outcome)
                 /\ UNCHANGED all_data
    /\ UNCHANGED <<i, transaction_state, warehouse>>
    /\ LoaderFrame

\* lambda_function.py:314-343: the connection, the cursor and the local
\* transaction_state; a failed connection raises mysql.connector.Error
LoaderConnect ==
    /\ pc = "lambda_connect"
    /\ \E ok \in BOOLEAN :
         IF ok
         THEN /\ conn' = [open |-> TRUE, in_transaction |-> FALSE, pending |-> {}]
              /\ transaction_state' = <<[batches_processed |-> 0, failed_batches |-> <<>>,
                                         current_batch |-> <<>>]>>
              /\ pc' = "lambda_transaction"
              /\ UNCHANGED result
         ELSE /\ LoaderFails("mysql.connector.Error")
              /\ UNCHANGED transaction_state
    /\ UNCHANGED <<i, all_data, warehouse>>
    /\ LoaderFrame

\* lambda_function.py:406-421 and 423-479: the except clause of the
\* transaction rolls back and raises again
TransactionFails(error, state) ==
    /\ result' = HandlerResponse(error, state)
    /\ conn' = Closed(Rollback(conn))
    /\ pc' = "lambda_done"

\* lambda_function.py:346-360
LoaderStartTransaction ==
    /\ pc = "lambda_transaction"
    /\ \E ok \in BOOLEAN :
         IF ok
         THEN /\ conn' = [conn EXCEPT !.in_transaction = TRUE]
              /\ i' = 0
              /\ pc' = IF Len(all_data) = 0 THEN "lambda_commit" ELSE "lambda_batch"
              /\ UNCHANGED result
         ELSE /\ TransactionFails("mysql.connector.Error", transaction_state)
              /\ UNCHANGED i
    /\ UNCHANGED <<all_data, transaction_state, warehouse>>
    /\ LoaderFrame

\* what one pass of the loop over the row-batches meets: the ping fails (the
\* connection is gone), the INSERT fails, or the rows are inserted
BatchOutcomes == {"unhealthy", "insert_fails", "inserted"}

\* lambda_function.py:362-386 with Utils/sql.py:24-43 and 67-75: one pass of
\* the loop.  ensure_healthy_connection names a logger that Utils/sql.py does
\* not define, so an unhealthy connection raises NameError and nothing
\* reconnects; the rollback that follows on the lost connection succeeds or
\* raises mysql.connector.Error.  insert_data_to_mysql adds a column for
\* every key of the batch that is no column yet: ALTER TABLE commits the rows
\* inserted so far before it runs (MySQL, statements that cause an implicit
\* commit); a failed ALTER TABLE is printed and passed over (sql.py:18-19).
LoaderBatch ==
    /\ pc = "lambda_batch"
    /\ i < Len(all_data)
    /\ \E outcome \in BatchOutcomes : \E altered \in BOOLEAN : \E rollback_ok \in BOOLEAN :
         LET batch_start == i
             batch_end == Min(i + BATCH_SIZE, Len(all_data))
             batch_data == SubSeq(all_data, batch_start + 1, batch_end)
             state == [transaction_state[1] EXCEPT !.current_batch = <<batch_start, batch_end>>]
             new_columns == UNION {batch_data[k].keys : k \in 1..Len(batch_data)}
             missing == new_columns \ warehouse.columns
             alters == missing # {} /\ altered
             after_alter == IF alters
                            THEN [Committed(warehouse, conn, "ALTER TABLE")
                                      EXCEPT !.columns = @ \cup missing]
                            ELSE warehouse
             pending == IF alters THEN {} ELSE conn.pending
         IN /\ (missing = {} \/ outcome = "unhealthy") => altered
            /\ outcome # "unhealthy" => rollback_ok
            /\ IF outcome = "unhealthy"
               THEN /\ TransactionFails(IF rollback_ok THEN "NameError"
                                        ELSE "mysql.connector.Error", <<state>>)
                    /\ transaction_state' = <<state>>
                    /\ UNCHANGED <<i, warehouse>>
               ELSE IF outcome = "insert_fails"
               THEN /\ TransactionFails("mysql.connector.Error", <<state>>)
                    /\ transaction_state' =
                          <<[state EXCEPT !.failed_batches =
                                            Append(@, <<batch_start, batch_end>>)]>>
                    /\ warehouse' = after_alter
                    /\ UNCHANGED i
               ELSE /\ conn' = [conn EXCEPT !.pending =
                                   pending \cup {batch_data[k].id : k \in 1..Len(batch_data)}]
                    /\ transaction_state' =
                          <<[state EXCEPT !.batches_processed = @ + 1]>>
                    /\ warehouse' = after_alter
                    /\ i' = i + BATCH_SIZE
                    /\ pc' = IF i + BATCH_SIZE < Len(all_data)
                             THEN "lambda_batch" ELSE "lambda_commit"
                    /\ UNCHANGED result
    /\ UNCHANGED all_data
    /\ LoaderFrame

\* lambda_function.py:388-404 and 474-500: the commit, the finally clause
\* and the response of a successful run
LoaderCommit ==
    /\ pc = "lambda_commit"
    /\ \E ok \in BOOLEAN :
         IF ok
         THEN /\ warehouse' = Committed(warehouse, conn, "COMMIT")
              /\ conn' = Closed(conn)
              /\ result' = SuccessResponse
              /\ pc' = "lambda_done"
         ELSE /\ TransactionFails("mysql.connector.Error", transaction_state)
              /\ UNCHANGED warehouse
    /\ UNCHANGED <<i, all_data, transaction_state>>
    /\ LoaderFrame

LoaderNext ==
    \/ LoaderCredentials
    \/ LoaderRead
    \/ LoaderConnect
    \/ LoaderStartTransaction
    \/ LoaderBatch
    \/ LoaderCommit

LoaderSpec == LoaderInit /\ [][LoaderNext]_vars

(* ------------------------------- claims ------------------------------- *)

\* the match ids of the documents stored under the window key and the
\* leftover keys
StoredKeys ==
    KeysUnder(storage, "backfill/matchlists/") \cup KeysUnder(storage, "backfill/leftovers/")
StoredIds == UNION {Range(storage[k].matchlist) : k \in StoredKeys}

\* the match ids of the window of this run
WindowMatchIds == Range(collected.uniqueMatches)

\* the state right after a loop wrote a checkpoint
JustCheckpointed ==
    /\ pc \in {"processor_flush", "leftovers_flush"}
    /\ ckpt.by # "none"
    /\ ckpt.written
    /\ ckpt.key \in DOMAIN storage

\* run_processor has just deleted the window file
WindowJustDeleted ==
    /\ pc = "leftovers_start"
    /\ MatchlistKey \notin DOMAIN storage

\* C1: once the window is persisted, every match id of the window is in the
\* window file or a leftover file, in a batch handed to the uploader, or
\* counted as no-data.
C1_NoMatchVanishes ==
    pc \notin {"fetcher_upload", "exit"} =>
        \A id \in WindowMatchIds :
            id \in StoredIds \/ id \in batched \/ id \in nodata_ids

\* C2: a checkpoint written after k < N matches were attempted holds exactly
\* N - k ids, disjoint from the attempted ones, and together with them all N.
C2_LeftoverIsExactRemainder ==
    (JustCheckpointed /\ Len(ckpt.attempted) < Len(ckpt.list)) =>
        LET ml == storage[ckpt.key].matchlist
        IN /\ Len(ml) = Len(ckpt.list) - Len(ckpt.attempted)
           /\ Range(ml) \cap Range(ckpt.attempted) = {}
           /\ Range(ml) \cup Range(ckpt.attempted) = Range(ckpt.list)

\* C3: when the key has expired by the time run_processor starts, no match is
\* fetched and the leftover file written is the whole original matchlist.
C3_ExpiredAtStartSavesAll ==
    (JustCheckpointed /\ ckpt.stage = "processor"
        /\ config.API_KEY_EXPIRATION <= start_time) =>
        /\ fetched = <<>>
        /\ storage[ckpt.key].matchlist = collected.uniqueMatches

\* C4: the window file is deleted only when the loop attempted every match
\* id, never after an exception truncated the loop.
C4_DeletedOnlyWhenAllAttempted ==
    WindowJustDeleted => (attempted = uniqueMatches /\ ~raised)

\* C4, amended: the window file is deleted only after the final flush and
\* join, and only when the loop attempted every match id or the leftover
\* checkpoint of the truncated loop was written.
C4_DeletedOnlyAfterLoopOrCheckpoint ==
    WindowJustDeleted =>
        /\ drained
        /\ \/ attempted = uniqueMatches /\ ~raised
           \/ /\ ckpt.stage = "processor"
              /\ ckpt.written
              /\ ckpt.key \in DOMAIN storage
              /\ storage[ckpt.key].matchlist = ckpt.unprocessed

C4_Witness ==
    /\ WindowJustDeleted
    /\ raised
    /\ attempted # uniqueMatches
    /\ ckpt.by = "error"
    /\ ckpt.written

\* C5: when the match at position j raises, the checkpoint holds the match at
\* position j and every later match, in order.
C5_ErrorCheckpointKeepsFailedMatch ==
    (JustCheckpointed /\ ckpt.by = "error"
        /\ Len(ckpt.attempted) = ckpt.at + 1
        /\ ckpt.attempted[ckpt.at + 1] = ckpt.list[ckpt.at + 1]) =>
        storage[ckpt.key].matchlist = SliceFrom(ckpt.list, ckpt.at)

\* C6: when the loop of run_processor raised, the final flush and the join
\* of the upload threads have happened by the time run_processor ends, also
\* when the checkpoint write of the except clause fails.
C6_DrainedAfterError ==
    (raised /\ pc \in {"exit", "leftovers_start"}) => drained

\* C7: every checkpoint written has the shape of the window file: the
\* remaining matchlist together with the rank map of the window.
C7_LeftoverHasWindowShape ==
    (JustCheckpointed /\ ckpt.stage = "processor") =>
        /\ DOMAIN storage[ckpt.key] = {"ranked_map", "matchlist"}
        /\ storage[ckpt.key].ranked_map = collected.player_rank_map

\* C7, amended: every checkpoint written holds the remaining matchlist and
\* nothing else; the rank map is not part of it.
C7_LeftoverHoldsOnlyMatchlist ==
    JustCheckpointed =>
        /\ DOMAIN storage[ckpt.key] = {"matchlist"}
        /\ storage[ckpt.key].matchlist = ckpt.unprocessed

C7_Witness ==
    /\ JustCheckpointed
    /\ ckpt.stage = "processor"
    /\ ckpt.by = "expiry"
    /\ Len(ckpt.unprocessed) > 0

\* C8: run_fetcher makes at most 3 upload attempts, each only while no
\* earlier one succeeded; after 3 failures the process ends with a non-zero
\* status, run_processor is never entered and no match is fetched.
C8_WindowUploadRetriedThreeTimes ==
    /\ window_uploads <= 3
    /\ pc = "fetcher_upload" =>
          /\ window_uploads < 3
          /\ MatchlistKey \notin DOMAIN storage
    /\ (pc = "exit" /\ MatchlistKey \notin DOMAIN storage) =>
          /\ window_uploads = 3
          /\ exit_code > 0
          /\ uniqueMatches = <<>>
          /\ fetched = <<>>

C8_Witness ==
    /\ pc = "exit"
    /\ window_uploads = 3
    /\ exit_code = 1
    /\ MatchlistKey \notin DOMAIN storage
    /\ Len(collected.uniqueMatches) > 0

\* C9: no match is fetched before the window file is written, and while the
\* loop of run_processor fetches, the stored window file holds the collected
\* match ids and rank map, which are the ones the loop consumes.
C9_FetchOnlyAfterWindowPersisted ==
    /\ pc \in {"fetcher_upload", "processor_pull", "processor_player_map"} =>
          fetched = <<>>
    /\ (pc = "exit" /\ MatchlistKey \notin DOMAIN storage) => fetched = <<>>
    /\ pc = "processor_loop" =>
          /\ MatchlistKey \in DOMAIN storage
          /\ storage[MatchlistKey].matchlist = collected.uniqueMatches
          /\ storage[MatchlistKey].ranked_map = collected.player_rank_map
          /\ uniqueMatches = collected.uniqueMatches

C9_Witness ==
    /\ pc = "processor_loop"
    /\ Len(fetched) > 0
    /\ window_uploads > 1

\* C10: every match or timeline request follows a deadline check that read a
\* time before API_KEY_EXPIRATION, and after a check has read a time at or
\* past it no request is issued for the rest of the run.
C10_NoFetchAfterDeadline ==
    [][(fetched' # fetched \/ timelines' # timelines) =>
          (~expired_seen /\ now' < config.API_KEY_EXPIRATION)]_vars

C10_Witness ==
    /\ pc = "leftovers_flush"
    /\ api_expired
    /\ Len(fetched) > 0
    /\ ckpt.stage = "leftovers"

\* the positions among the first k of the match list whose match and
\* timeline responses are both usable payloads
UsablePositions(k) ==
    {j \in 1..k : collected.responses[j] = <<"payload", "payload">>}

\* C11: after each iteration the matches whose responses were usable
\* payloads are the ones appended to the batch and counted as processed, and
\* the matches answered by an error envelope or by no response are the ones
\* counted as no-data, which are in no batch.
C11_ResponsesClassified ==
    pc \in {"classify_loop", "classify_done"} =>
        /\ total = Cardinality(UsablePositions(i))
        /\ no_data = i - Cardinality(UsablePositions(i))
        /\ Range(match_data) \cup batched =
              {uniqueMatches[j] : j \in UsablePositions(i)}
        /\ nodata_ids = {uniqueMatches[j] : j \in (1..i) \ UsablePositions(i)}

\* C12: when run_processor reports its counts, the total it reports is the
\* number of matches appended to a batch plus the number of no-data matches,
\* and no match counted as no-data is in a batch or in the accumulator.
C12_TotalCountsNoData ==
    pc = "processor_delete" =>
        /\ total = Cardinality(Range(match_data) \cup batched) + no_data
        /\ nodata_ids \cap (Range(match_data) \cup batched) = {}

\* the number of usable payloads among the responses of the first k matches
\* of ec2.py
Ec2Usable(k) == Cardinality({j \in 1..k : collected.responses[j] = "payload"})

\* the sizes of floor(S/500) full batches and of the batch of S mod 500
BatchSizes(S) ==
    [k \in 1..((S \div 500) + (IF S % 500 > 0 THEN 1 ELSE 0)) |->
        IF k <= S \div 500 THEN 500 ELSE S % 500]

\* C13: when the run is over, the uploads it invoked have the sizes of
\* floor(S/500) batches of 500 followed, when S mod 500 > 0, by one batch of
\* S mod 500, S being the number of matches fetched with a usable payload.
C13_BatchSizesOfRun ==
    pc = "ec2_done" =>
        [k \in 1..Len(active_threads) |-> active_threads[k].metadata.match_count]
            = BatchSizes(Ec2Usable(i))

\* C14: when the caller declares the uploads complete, every handle it
\* received from send_json has been joined and no upload thread still runs.
C14_CompleteOnlyAfterAllJoined ==
    pc = "driver_done" =>
        \A k \in 1..Len(active_threads) :
            /\ active_threads[k].joined
            /\ active_threads[k].state # "running"

C14_Witness ==
    /\ pc = "driver_done"
    /\ Len(active_threads) = 2
    /\ active_threads[1].state = "done"
    /\ active_threads[2].state = "done"

\* C15: a run is not declared complete while an upload it started has
\* failed: joining the handle of a failed upload raises.
C15_NoCompletionWithFailedUpload ==
    pc = "driver_done" =>
        \A k \in 1..Len(active_threads) : active_threads[k].state # "failed"

\* the threads send_json has started and not yet returned
Unreturned == {k \in 1..Len(active_threads) : ~active_threads[k].held}

\* C16: a call of send_json returns no handle exactly when data is empty and
\* then starts no thread; for non-empty data it starts exactly one upload
\* thread and returns the handle of that thread, and its return waits for
\* nothing: it can be taken whether the thread still runs or has ended.
C16_HandleIffNonEmpty ==
    /\ [](/\ Unreturned = IF pc = "driver_print" THEN {Len(active_threads)} ELSE {}
          /\ pc = "driver_print" => ENABLED DriverReturn)
    /\ [][/\ Len(active_threads') # Len(active_threads) =>
                /\ pc = "driver_calls" /\ pc' = "driver_print"
                /\ Len(active_threads') = Len(active_threads) + 1
                /\ SubSeq(active_threads', 1, Len(active_threads)) = active_threads
                /\ active_threads'[Len(active_threads')].enqueued # <<>>
                /\ result' = result
          /\ result' # result =>
                /\ result'.calls = result.calls + 1
                /\ (result'.ret = <<>>) <=> (result'.data = <<>>)
                /\ result'.data = <<>> =>
                      /\ pc = "driver_calls"
                      /\ active_threads' = active_threads
                /\ result'.data # <<>> =>
                      /\ pc = "driver_print"
                      /\ result'.ret = <<Len(active_threads)>>
                      /\ active_threads' =
                            [active_threads EXCEPT ![Len(active_threads)].held = TRUE]
                      /\ active_threads[Len(active_threads)].enqueued = result'.data
                      /\ Unreturned = {Len(active_threads)}]_vars

\* send_json has returned the handle of a thread that still runs, after a
\* call that returned none
C16_Witness ==
    /\ result.calls = 2
    /\ result.data # <<>>
    /\ result.ret = <<1>>
    /\ Len(active_threads) = 1
    /\ active_threads[1].held
    /\ active_threads[1].state = "running"
    /\ storage = <<>>

\* C17: the list an upload thread holds equals the records data held at the
\* call for as long as the thread runs, and what the thread writes is those
\* records, whatever the caller did to its list in between.
C17_UploadWritesEnqueuedRecords ==
    \A k \in 1..Len(active_threads) :
        /\ heap.objects[active_threads[k].matches_ref] = active_threads[k].enqueued
        /\ active_threads[k].state = "done" =>
              active_threads[k].written[1].matches = active_threads[k].enqueued

C17_Witness ==
    \E k \in 1..Len(active_threads) :
        /\ active_threads[k].state = "done"
        /\ active_threads[k].raced
        /\ storage[active_threads[k].s3_key].matches = active_threads[k].enqueued

\* C18: two batches of different records handed to send_json never get the
\* same destination key.
C18_DistinctKeys ==
    \A k1, k2 \in 1..Len(active_threads) :
        active_threads[k1].enqueued # active_threads[k2].enqueued =>
            active_threads[k1].s3_key # active_threads[k2].s3_key

\* the HTTP requests one fetch call has issued
HttpRequests == Len(SelectSeq(http_log, LAMBDA e : e.ev \in {"get", "get_exception"}))

\* C19: a call of make_api_request_with_smart_backoff with max_retries = N
\* never issues more than N HTTP requests, and when it has ended it has
\* returned the payload of a successful response or the failure value None.
C19_AtMostNRequestsThenReturns ==
    config.fn = "make_api_request_with_smart_backoff" =>
        /\ HttpRequests <= config.max_retries
        /\ pc = "fetch_done" => result \in {"payload", None}

\* C20: a fetch function never ends by raising: whatever the responses and
\* the exceptions of its requests, the call returns a value.
C20_FetchNeverRaises ==
    pc = "fetch_done" => result \in {"payload", "envelope", None}

\* the positions of http_log that are HTTP responses
ResponsePositions == {k \in 1..Len(http_log) : http_log[k].ev = "get"}

\* C21: in a call of make_api_request_with_smart_backoff, a response with a
\* 4xx status other than 429 is the last thing of the call, which ends with
\* the failure value after that request; and a 429 or 5xx response is
\* followed by another request only while requests of the budget are left.
C21_ClientErrorNeverRetried ==
    config.fn = "make_api_request_with_smart_backoff" =>
        \A k \in ResponsePositions :
            LET status_code == http_log[k].status_code
            IN /\ (400 <= status_code /\ status_code < 500 /\ status_code # 429) =>
                      /\ k = Len(http_log)
                      /\ pc = "fetch_done"
                      /\ result = None
               /\ (status_code = 429 \/ status_code >= 500) /\ k < Len(http_log) =>
                      HttpRequests <= config.max_retries

\* C22: in a call of make_api_request_with_smart_backoff, a request that is
\* not the first one of the call comes right after a sleep of a positive
\* time.
C22_SleepBeforeEveryRetry ==
    config.fn = "make_api_request_with_smart_backoff" =>
        \A k \in 2..Len(http_log) :
            http_log[k].ev \in {"get", "get_exception"} =>
                /\ http_log[k - 1].ev = "sleep"
                /\ http_log[k - 1].wait > 0

\* C23: in a call of make_api_request_with_smart_backoff, when a 429 or 5xx
\* response with a Retry-After header is retried, the sleep before the next
\* request is the time of the header.
C23_RetryHintHonoured ==
    config.fn = "make_api_request_with_smart_backoff" =>
        \A k \in ResponsePositions :
            LET e == http_log[k]
            IN (/\ e.status_code = 429 \/ e.status_code >= 500
                /\ e.retry_after # "absent"
                /\ k < Len(http_log)) =>
                   /\ http_log[k + 1].ev = "sleep"
                   /\ IntOf(e.retry_after) # <<>>
                   /\ http_log[k + 1].wait = 10 * IntOf(e.retry_after)[1]

\* the ladder calls of api_calls, and the top-tier ones
LadderCalls == SelectSeq(api_calls, LAMBDA c : c.fn \in {"highElo", "LowElo"})
HighEloCalls == SelectSeq(api_calls, LAMBDA c : c.fn = "highElo")

RECURSIVE EntriesOf(_)
\* the number of entries the calls of a sequence returned
EntriesOf(calls) ==
    IF calls = <<>> THEN 0
    ELSE EntriesOf(SubSeq(calls, 1, Len(calls) - 1)) + calls[Len(calls)].n

\* the top tiers are asked in the order of ranks, and no ladder is asked once
\* the ladders before it have returned MAX_PLAYER_COUNT players
TiersInOrderUntilCap ==
    /\ \A k \in 1..Len(HighEloCalls) : HighEloCalls[k].rank = k
    /\ \A k \in 1..Len(LadderCalls) :
           EntriesOf(SubSeq(LadderCalls, 1, k - 1)) < config.MAX_PLAYER_COUNT

\* the run of the scenario: a cap of 100 players and 40 entries a top tier
FortyATier ==
    /\ config.MAX_PLAYER_COUNT = 100
    /\ \A k \in 1..Len(HighEloCalls) : HighEloCalls[k].n = 40

\* C24 as stated: the top tiers are asked in order until the cap is reached,
\* and with a cap of 100 and 40 entries a tier the third tier is never asked.
C24_ThirdTierNeverQueried ==
    /\ TiersInOrderUntilCap
    /\ FortyATier => Len(HighEloCalls) <= 2

\* C24, amended: the top tiers are asked in order until the cap is reached;
\* with a cap of 100 and 40 entries a tier the cap is not reached after the
\* second tier (80 < 100), so the third tier is asked as well, and no page of
\* a lower tier is asked after it (120 >= 100).
C24_TiersQueriedUntilCap ==
    /\ TiersInOrderUntilCap
    /\ (FortyATier /\ pc # "fetcher_high_elo") =>
           /\ Len(HighEloCalls) = 3
           /\ Len(LadderCalls) = 3

\* the scenario has left the loop over the top tiers
C24_Witness ==
    /\ FortyATier
    /\ pc = "fetcher_matchlist"
    /\ Len(high_elo_players) = 120

\* a call of highElo or LowElo has failed: it raised or it returned None
LadderFailed == \E k \in 1..Len(LadderCalls) : LadderCalls[k].kind \in {"raise", "none"}

\* C25: once a call of highElo or LowElo has failed, the run is over with
\* exit code 1 and nothing is in the bucket: no rank map is built, no match
\* list is asked for and no window file is written.
C25_LadderFailureAborts ==
    LadderFailed => /\ pc = "exit"
                    /\ exit_code = 1
                    /\ storage = <<>>

\* the calls of LowElo, and whether one returned no player
LowEloCalls == SelectSeq(api_calls, LAMBDA c : c.fn = "LowElo")
EmptyPage(call) == call.kind = "none" \/ (call.kind = "entries" /\ call.n = 0)

\* C26: after a page of a division came back empty no further page of that
\* division is requested; the pages of a division are requested from page 1
\* on, each after a page with players; the number of LowElo calls is bounded
\* by MAX_PLAYER_COUNT plus the number of divisions; and when run_fetcher has
\* gone past the ladders, the cap is reached or every division that was
\* started has ended with an empty page.
C26_PaginationEndsOnEmptyPage ==
    /\ \A k \in 1..Len(LowEloCalls) : \A j \in (k + 1)..Len(LowEloCalls) :
           EmptyPage(LowEloCalls[k]) => LowEloCalls[j].division # LowEloCalls[k].division
    /\ \A k \in 1..Len(LowEloCalls) :
           \/ LowEloCalls[k].page = 1
           \/ /\ k > 1
              /\ LowEloCalls[k - 1].division = LowEloCalls[k].division
              /\ LowEloCalls[k - 1].page = LowEloCalls[k].page - 1
              /\ ~EmptyPage(LowEloCalls[k - 1])
    /\ Len(LowEloCalls) <= config.MAX_PLAYER_COUNT + Len(divisions)
    /\ pc \in {"fetcher_matchlist", "fetcher_upload", "processor_pull"} =>
           \/ PlayerCount(high_elo_players, low_elo_players) >= config.MAX_PLAYER_COUNT
           \/ \A d \in 1..Len(divisions) :
                  \E k \in 1..Len(LowEloCalls) :
                      LowEloCalls[k].division = d /\ EmptyPage(LowEloCalls[k])

\* a division went through a page with players and then an empty page, below
\* the cap, and the ladders are done
C26_Witness ==
    /\ pc = "fetcher_matchlist"
    /\ PlayerCount(high_elo_players, low_elo_players) < config.MAX_PLAYER_COUNT
    /\ \E k \in 2..Len(LowEloCalls) :
           /\ LowEloCalls[k].page = 2
           /\ LowEloCalls[k].kind = "entries"
           /\ LowEloCalls[k].n = 0

\* the calls of matchList
MatchListCalls == SelectSeq(api_calls, LAMBDA c : c.fn = "matchList")

\* C27: a player whose match-list request gets a non-list response (None or
\* an error envelope) does not abort the collection, and when the window is
\* in the bucket it holds the match ids of every player whose request got a
\* list.
C27_NonListResponseSkipped ==
    /\ \A k \in 1..Len(MatchListCalls) :
           MatchListCalls[k].answer \in {"none", "envelope"} =>
               MatchListCalls[k].kind # "raise"
    /\ MatchlistKey \in DOMAIN storage =>
           \A k \in 1..Len(MatchListCalls) :
               (MatchListCalls[k].answer = "list" /\ MatchListCalls[k].n > 0) =>
                   MatchListCalls[k].puuid \in Range(storage[MatchlistKey].matchlist)

\* a call of matchList has raised
CollectionRaised == \E k \in 1..Len(MatchListCalls) : MatchListCalls[k].kind = "raise"

\* C28: once a call of matchList has raised, the run is over with exit code 1,
\* no upload of the window was tried and no window file is in the bucket.
C28_NoWindowAfterCollectionError ==
    CollectionRaised => /\ pc = "exit"
                        /\ exit_code = 1
                        /\ window_uploads = 0
                        /\ MatchlistKey \notin DOMAIN storage

\* a call of matchList has raised after players were collected and some of
\* them were passed over
C28_Witness ==
    /\ CollectionRaised
    /\ pc = "exit"
    /\ i > 0
    /\ Len(ranked_players) > 1

\* the codes with which a failed import ends the process
ImportExitCodes == {FETCHER_IMPORT_EXIT, PROCESSOR_IMPORT_EXIT, LEFTOVER_IMPORT_EXIT}

\* C29: a process that ended on a failed import has a non-zero code, a
\* process that ended on a critical failure of a stage (the window, the
\* window pull or an upload could not be done, all of which come after
\* run_fetcher tried to store the window) has a non-zero code that no failed
\* import gives, and a process that completed has code 0.
C29_ExitCodesDistinguishOutcomes ==
    /\ (pc = "exit" /\ result = "ImportError") =>
           exit_code # 0 /\ exit_code \in ImportExitCodes
    /\ (pc = "exit" /\ window_uploads > 0) =>
           exit_code # 0 /\ exit_code \notin ImportExitCodes
    /\ pc = "complete" => exit_code = 0

\* the ids of a list that are not among the attempted ones, in their order
NotAttempted(list, tried) == SelectSeq(list, LAMBDA m : m \notin Range(tried))

\* every id of the leftover file in progress was attempted and the deadline
\* was not hit
FullyCompleted == Range(uniqueMatches) \subseteq Range(attempted) /\ ~api_expired

\* C30: when run_leftovers is done with a leftover file, the file is deleted
\* only if every id of it was attempted and the deadline was not hit; else
\* the file is still at its key, and once the overwrite of the checkpoint
\* was done it holds the ids that were not attempted.
C30_LeftoverDeletedOnlyWhenComplete ==
    [][pc = "leftovers_finish" =>
        LET key == leftovers[lidx + 1]
        IN /\ (key \in DOMAIN storage /\ key \notin DOMAIN storage') => FullyCompleted
           /\ ~FullyCompleted =>
                  /\ key \in DOMAIN storage'
                  /\ (ckpt.by # "none" /\ ckpt.written) =>
                         storage'[key].matchlist = NotAttempted(uniqueMatches, attempted)
    ]_vars

\* the pipeline has completed and neither a window file nor a leftover file
\* is in the bucket
NothingLeftToDo == pc = "complete" /\ StoredKeys = {}

\* no match id was requested twice
NoIdFetchedTwice == \A a, b \in 1..Len(fetched) : fetched[a] = fetched[b] => a = b

\* C31: when the runs of main over a bucket have consumed the window of the
\* first run and every leftover file derived from it, and no id was requested
\* twice, the number of match ids attempted over all the runs is the number
\* of match ids of the window, which is what one run that is not interrupted
\* attempts.
C31_ResumeIsCountPreserving ==
    (NothingLeftToDo /\ NoIdFetchedTwice) =>
        Len(fetched) = Len(collected.first_window)

\* a list is the first ids, or the last ids, of another one, in its order
IsPrefix(s, t) == Len(s) <= Len(t) /\ s = SubSeq(t, 1, Len(s))
IsSuffix(s, t) == Len(s) <= Len(t) /\ s = SliceFrom(t, Len(t) - Len(s))

\* C32: the loop of run_processor attempts the match ids in the order of the
\* matchlist of the stored window file, the loop of run_leftovers in the order
\* of the matchlist it loaded, and the matchlist of a checkpoint just written
\* is a contiguous suffix, in the same order, of the matchlist the loop had
\* loaded, which for run_processor is the one of the stored window file.
C32_OrderKeptAcrossCheckpoints ==
    /\ pc \in {"processor_loop", "processor_except", "processor_flush", "processor_join",
               "processor_delete"} =>
           /\ MatchlistKey \in DOMAIN storage
           /\ uniqueMatches = collected.uniqueMatches
           /\ IsPrefix(attempted, storage[MatchlistKey].matchlist)
    /\ pc \in {"leftovers_loop", "leftovers_except", "leftovers_flush",
               "leftovers_finish"} =>
           IsPrefix(attempted, uniqueMatches)
    /\ JustCheckpointed =>
           /\ ckpt.list = uniqueMatches
           /\ IsSuffix(storage[ckpt.key].matchlist, ckpt.list)
           /\ ckpt.stage = "processor" =>
                  IsSuffix(storage[ckpt.key].matchlist, storage[MatchlistKey].matchlist)

\* a window in the other order of the set was stopped after one id and its
\* checkpoint holds the two ids that follow
C32_Witness ==
    /\ JustCheckpointed
    /\ ckpt.stage = "processor"
    /\ ckpt.list = <<3, 2, 1>>
    /\ attempted = <<3>>
    /\ storage[ckpt.key].matchlist = <<2, 1>>

\* a row-batch insert of the file has failed (lambda_function.py:377-383)
BatchInsertFailed ==
    transaction_state # <<>> /\ transaction_state[1].failed_batches # <<>>

\* the commits that put rows in the table
RowCommits == {k \in 1..Len(warehouse.commits) : warehouse.commits[k].rows # {}}

\* C33: no row of the file is in the table before the handler has committed;
\* when a row-batch insert failed, the handler has ended with no row of the
\* file in the table, a status other than 200 and the file still in the
\* bucket; and a status of 200 is returned only when all the rows of the file
\* were committed by one commit.
C33_FileInsertedInOneTransaction ==
    /\ pc \in {"lambda_read", "lambda_connect", "lambda_transaction", "lambda_batch",
               "lambda_commit"} => TableRows = {}
    /\ (pc = "lambda_done" /\ BatchInsertFailed) =>
           /\ TableRows = {}
           /\ result.statusCode # 200
           /\ config.fileKey \in DOMAIN storage
    /\ (pc = "lambda_done" /\ result.statusCode = 200) =>
           /\ TableRows = {all_data[k].id : k \in 1..Len(all_data)}
           /\ Cardinality(RowCommits) <= 1

\* the match records ec2.py holds or has handed to send_json
Ec2Records ==
    Range(heap.objects[heap.matches])
        \cup UNION {Range(active_threads[k].enqueued) : k \in 1..Len(active_threads)}

\* the record r is the payload with tier, rank and lp of the rank map on
\* every participant whose puuid is a key of it, UNKNOWN and nulls on the
\* others, and the other fields of the participants as they were
RankEnriched(r, payload, rank_map) ==
    /\ r.id = payload.id
    /\ Len(r.info.participants) = Len(payload.info.participants)
    /\ \A k \in 1..Len(payload.info.participants) :
         LET p == payload.info.participants[k]
             q == r.info.participants[k]
         IN /\ q.puuid = p.puuid
            /\ q.kills = p.kills
            /\ IF p.puuid \in DOMAIN rank_map
               THEN /\ q.tier = rank_map[p.puuid].tier
                    /\ q.rank = rank_map[p.puuid].rank
                    /\ q.lp = rank_map[p.puuid].lp
               ELSE /\ q.tier = "UNKNOWN"
                    /\ q.rank = None
                    /\ q.lp = None

\* C34: once ec2.py has left its loop and handed the remaining records to
\* send_json, every match whose fetch gave a usable payload has a processed
\* record, and in it a participant whose
\* puuid is a key of the rank map has the tier, rank and lp of its entry, a
\* participant whose puuid is absent has tier "UNKNOWN", rank null and lp
\* null, and the other fields of the participants are unchanged.
C34_RankEnrichment ==
    pc \in {"ec2_join", "ec2_done"} =>
        \A j \in 1..i :
            collected.responses[j] = "payload" =>
                \E r \in Ec2Records :
                    RankEnriched(r, MatchPayload(uniqueMatches[j]), player_rank_map)

\* C35: a pull of the window file that fails changes nothing in the bucket
\* and is followed by another pull while fewer than 3 were made; when the
\* third pull fails, run_processor ends the process with exit code 7, no
\* match has been requested, and the window file is in the bucket as
\* run_fetcher wrote it.
C35_PullFailureLeavesWindow ==
    [][pc = "processor_pull" =>
        /\ storage' = storage
        /\ fetched' = fetched
        /\ pc' = "processor_pull" => attempt' = attempt + 1 /\ attempt' < 3
        /\ pc' = "exit" =>
               /\ attempt + 1 = 3
               /\ exit_code' = 7
               /\ fetched' = <<>> /\ timelines' = <<>>
               /\ MatchlistKey \in DOMAIN storage'
               /\ storage'[MatchlistKey] =
                      WindowDocument(collected.player_rank_map, collected.uniqueMatches)
    ]_vars

\* the third pull of a window of three ids has failed
C35_Witness ==
    /\ pc = "exit"
    /\ exit_code = 7
    /\ attempt = 2
    /\ fetched = <<>>
    /\ MatchlistKey \in DOMAIN storage
    /\ Len(storage[MatchlistKey].matchlist) = 3

\* the stage main called last and the way its call ended
LastStage == stage_calls[Len(stage_calls)].stage
LastEnd == collected[LastStage]

\* C36: when main has ended after calling a stage, and the call of the last
\* stage ended the process with a code c, main has ended the process with
\* the code c; when the call raised another exception, main has ended the
\* process with code 1 if the stage is run_fetcher or run_processor, and has
\* completed with status 0 if the stage is run_leftovers.
C36_MainPreservesExitCode ==
    (pc \in {"exit", "complete"} /\ stage_calls # <<>>) =>
        /\ LastEnd.kind = "SystemExit" => pc = "exit" /\ exit_code = LastEnd.code
        /\ (LastEnd.kind = "Exception" /\ LastStage \in {"run_fetcher", "run_processor"}) =>
               pc = "exit" /\ exit_code = 1
        /\ (LastEnd.kind = "Exception" /\ LastStage = "run_leftovers") =>
               pc = "complete" /\ exit_code = 0

\* run_processor, called with the key run_fetcher returned, ended the process
\* with code 7
C36_Witness ==
    /\ pc = "exit"
    /\ exit_code = 7
    /\ Len(stage_calls) = 2
    /\ LastStage = "run_processor"
    /\ LastEnd.kind = "SystemExit"

\* every stage returns and run_fetcher returns the window key
EveryStageSucceeds ==
    /\ collected.run_fetcher.kind = "return"
    /\ collected.run_fetcher.value = <<MatchlistKey>>
    /\ collected.run_processor.kind = "return"
    /\ collected.run_leftovers.kind = "return"

\* main has called run_fetcher, then run_processor with the returned key,
\* then run_leftovers, and has completed with status 0
PipelineComplete ==
    /\ pc = "complete"
    /\ exit_code = 0
    /\ stage_calls = <<[stage |-> "run_fetcher", args |-> <<config>>],
                       [stage |-> "run_processor", args |-> <<config, MatchlistKey>>],
                       [stage |-> "run_leftovers", args |-> <<config>>]>>

\* C37: when main is called with the configuration in its environment and
\* every stage succeeds, main calls run_fetcher, then run_processor with the
\* key it returned, then run_leftovers, and eventually completes with
\* status 0.
C37_MainEventuallyCompletes ==
    (pc = "main_load_config" /\ EveryStageSucceeds) ~> PipelineComplete

\* the positions of run_leftovers
LeftoverPositions ==
    {"leftovers_start", "leftovers_next", "leftovers_loop", "leftovers_except",
     "leftovers_flush", "leftovers_finish"}

\* C38: a step of run_leftovers taken when the clock has already shown the
\* deadline passed requests no match and leaves every leftover file of the
\* bucket at its key with its matchlist unchanged.  The clock never runs
\* backwards and the pass that sees the deadline pass stops fetching, so these
\* are the steps of a pass that started after the deadline and the last
\* steps of the pass that saw it pass.
C38_ExpiredLeftoverPassIsNoOp ==
    [][(pc \in LeftoverPositions /\ KeyExpired(now)) =>
        /\ fetched' = fetched
        /\ \A key \in KeysUnder(storage, "backfill/leftovers/") :
               /\ key \in DOMAIN storage'
               /\ storage'[key].matchlist = storage[key].matchlist
    ]_vars

\* C40: once the credentials are loaded, lambda_handler ends by returning a
\* response with a statusCode, whatever fails: no exception reaches the
\* caller.
C40_HandlerAlwaysReturnsStatus ==
    pc = "lambda_done" =>
        /\ result.kind = "response"
        /\ result.statusCode \in {200, 400, 404, 500}

====
